---- MODULE Spec2Model ----
(***************************************************************************)
(* Prism Pacer: the cursor-following pacer line (src/content/pacer.js),    *)
(* the page dimmer (src/unnamed/part_003) and the content script that      *)
(* drives them (src/content/main.js).                                      *)
(*                                                                         *)
(* A JavaScript number that holds a pixel coordinate is represented in     *)
(* fixed point: an integer count of 1/Unit px.  A product with an ease     *)
(* factor is rounded to the nearest representable value, as the IEEE       *)
(* multiplication of the source rounds its result.                         *)
(***************************************************************************)
EXTENDS Integers, Sequences, FiniteSets, TLC

\* ------------------------------------------------------------------ bounds
Unit == 1              \* representable values per pixel
MaxMouseY == 4        \* largest pointer clientY, in px
InnerHeight == 16      \* window.innerHeight, in px
InnerWidth == 56       \* window.innerWidth, in px

Px(n) == n * Unit

Abs(n) == IF n < 0 THEN -n ELSE n

\* n / d rounded to the nearest integer, halves away from zero.
RoundDiv(n, d) ==
    IF n >= 0 THEN (2 * n + d) \div (2 * d)
              ELSE -((2 * (-n) + d) \div (2 * d))

\* ---------------------------------------------------------------- pacer.js
minLineWidth == 20
PacerHeight == 4          \* settings.height
PacerOffset == 0          \* settings.offset
EaseSmart == 18           \* ease = 0.18, in hundredths
EaseClassic == 15         \* ease = 0.15, in hundredths
EaseDimmer == 12          \* ease = 0.12, in hundredths

\* The easing step with the sign of the increment reversed.
LerpAway(current, target, ease) == current - RoundDiv((target - current) * ease, 100)

\* current += (target - current) * ease
Lerp(current, target, ease) == current + RoundDiv((target - current) * ease, 100)

\* A CSS length of element.style: not yet written, a pixel value, or '100%'.
Unset == [kind |-> "unset", v |-> 0]
PxLen(v) == [kind |-> "px", v |-> v]
Full == [kind |-> "pct", v |-> 100]

\* A DOMRect or null.
NullRect == [null |-> TRUE, top |-> 0, left |-> 0, width |-> 0, height |-> 0]
Rect(top, left, width, height) ==
    [null |-> FALSE, top |-> Px(top), left |-> Px(left),
     width |-> Px(width), height |-> Px(height)]

\* The Pacer object after its constructor (pacer.js:12-70).  animationFrame is
\* TRUE when the field holds a request id; pending names the callback the
\* browser still has queued for the next frame.  lateWrite is the spy on
\* element.style: a write made while enabled is false, outside enable() and
\* disable() themselves.
PacerNew ==
    [element |-> FALSE, enabled |-> FALSE,
     settings |-> [smartDetection |-> TRUE, smoothFollow |-> TRUE, scrollFade |-> TRUE],
     currentY |-> 0, targetY |-> 0,
     animationFrame |-> FALSE, pending |-> "none",
     isOverText |-> FALSE, targetRect |-> NullRect,
     currentRect |-> [top |-> 0, left |-> 0, width |-> 0],
     isScrolling |-> FALSE, listeners |-> FALSE, controlMode |-> "mouse",
     style |-> [display |-> "none", opacity |-> "default",
                top |-> Unset, left |-> Unset, width |-> Unset],
     lateWrite |-> FALSE]

\* An assignment to this.element.style.
PacerStyle(p, style) ==
    [p EXCEPT !.style = style, !.lateWrite = @ \/ ~p.enabled]

PacerApplyStyles(p) ==
    IF ~p.element THEN p
    ELSE IF ~p.settings.smartDetection
         THEN PacerStyle(p, [p.style EXCEPT !.width = Full, !.opacity = "opacity",
                                            !.left = PxLen(0)])
         ELSE PacerStyle(p, p.style)

PacerInit(p) ==
    IF p.element THEN p
    ELSE PacerApplyStyles(
           [p EXCEPT !.element = TRUE,
                     !.style = [display |-> "none", opacity |-> "default",
                                top |-> Unset, left |-> PxLen(0), width |-> Unset]])

PacerUpdateSettings(p, newSettings) ==
    PacerApplyStyles([p EXCEPT !.settings = newSettings])

PacerUpdatePosition(p) ==
    IF ~p.element THEN p
    ELSE PacerStyle(p, [p.style EXCEPT !.top = PxLen(p.currentY - Px(PacerHeight) \div 2)])

PacerAnimate(p) ==
    IF ~p.enabled \/ p.settings.smartDetection THEN p
    ELSE [PacerUpdatePosition(
            [p EXCEPT !.currentY = Lerp(p.currentY, p.targetY, EaseClassic)])
          EXCEPT !.animationFrame = TRUE, !.pending = "animate"]

PacerStartAnimation(p) == IF p.animationFrame THEN p ELSE PacerAnimate(p)

\* stopAnimation() without the cancelAnimationFrame call.
PacerStopAnimationLeaky(p) == p

PacerStopAnimation(p) ==
    IF p.animationFrame
    THEN [p EXCEPT !.animationFrame = FALSE, !.pending = "none"]
    ELSE p

\* animateSmart() made to send the line back to the origin when it has no
\* target.
PacerAnimateSmartJump(p) ==
    IF ~p.enabled \/ ~p.settings.smartDetection THEN p
    ELSE LET t == p.targetRect
             c == [top   |-> Lerp(p.currentRect.top, t.top, EaseSmart),
                   left  |-> Lerp(p.currentRect.left, t.left, EaseSmart),
                   width |-> Lerp(p.currentRect.width, t.width, EaseSmart)]
             h == IF t.height = 0 THEN Px(20) ELSE t.height
             q == PacerStyle([p EXCEPT !.currentRect = c],
                    [p.style EXCEPT
                       !.top = PxLen(c.top + h - Px(PacerHeight) \div 2),
                       !.left = PxLen(c.left),
                       !.width = PxLen(c.width),
                       !.opacity = IF ~t.null /\ p.isOverText THEN "opacity" ELSE "0"])
         IN [q EXCEPT !.animationFrame = TRUE, !.pending = "animateSmart"]

PacerAnimateSmart(p) ==
    IF ~p.enabled \/ ~p.settings.smartDetection THEN p
    ELSE LET t == p.targetRect
             c == [top   |-> Lerp(p.currentRect.top, t.top, EaseSmart),
                   left  |-> Lerp(p.currentRect.left, t.left, EaseSmart),
                   width |-> Lerp(p.currentRect.width, t.width, EaseSmart)]
             h == IF t.height = 0 THEN Px(20) ELSE t.height
             q == IF ~t.null /\ p.isOverText
                  THEN PacerStyle([p EXCEPT !.currentRect = c],
                         [p.style EXCEPT
                            !.top = PxLen(c.top + h - Px(PacerHeight) \div 2),
                            !.left = PxLen(c.left),
                            !.width = PxLen(c.width),
                            !.opacity = "opacity",
                            !.display = "block"])
                  ELSE PacerStyle(p, [p.style EXCEPT !.opacity = "0"])
         IN [q EXCEPT !.animationFrame = TRUE, !.pending = "animateSmart"]

PacerStartSmartAnimation(p) == IF p.animationFrame THEN p ELSE PacerAnimateSmart(p)

PacerEnable(p) ==
    IF p.enabled THEN p
    ELSE LET a == PacerInit(p)
             b == [a EXCEPT !.enabled = TRUE,
                            !.style = [a.style EXCEPT !.display = "block"],
                            !.isOverText = FALSE,
                            !.targetRect = NullRect,
                            !.currentRect = [top |-> 0, left |-> 0, width |-> 0],
                            !.isScrolling = FALSE,
                            !.listeners = TRUE]
             c == IF b.settings.smartDetection THEN PacerStartSmartAnimation(b)
                  ELSE IF b.settings.smoothFollow THEN PacerStartAnimation(b)
                  ELSE b
         IN [c EXCEPT !.lateWrite = p.lateWrite]

\* disable() without the removeEventListener calls.
PacerDisableKeepListeners(p) ==
    IF ~p.enabled THEN p
    ELSE PacerStopAnimation(
           [p EXCEPT !.enabled = FALSE,
                     !.style = IF p.element THEN [p.style EXCEPT !.display = "none"]
                               ELSE p.style,
                     !.isScrolling = FALSE])

PacerDisable(p) ==
    IF ~p.enabled THEN p
    ELSE PacerStopAnimation(
           [p EXCEPT !.enabled = FALSE,
                     !.style = IF p.element THEN [p.style EXCEPT !.display = "none"]
                               ELSE p.style,
                     !.listeners = FALSE,
                     !.isScrolling = FALSE])

PacerToggle(p) == IF p.enabled THEN PacerDisable(p) ELSE PacerEnable(p)

PacerHideForScroll(p) ==
    IF ~p.element THEN p
    ELSE [PacerStyle(p, IF p.settings.scrollFade
                        THEN [p.style EXCEPT !.opacity = "0"]
                        ELSE [p.style EXCEPT !.display = "none"])
          EXCEPT !.isOverText = FALSE, !.targetRect = NullRect]

PacerHandleScroll(p) ==
    IF ~p.isScrolling THEN PacerHideForScroll([p EXCEPT !.isScrolling = TRUE])
    ELSE p

\* handleMouseMove that takes a line of any width as the target.
PacerHandleMouseMoveAnyWidth(p, clientY, throttled, textRect) ==
    LET a == IF p.isScrolling
             THEN LET u == [p EXCEPT !.isScrolling = FALSE]
                  IN IF ~p.settings.scrollFade /\ p.element
                     THEN PacerStyle(u, [p.style EXCEPT !.display = "block"])
                     ELSE u
             ELSE p
    IN IF a.settings.smartDetection
       THEN IF throttled THEN a
            ELSE IF ~textRect.null
                 THEN [a EXCEPT !.targetRect = textRect, !.isOverText = TRUE]
                 ELSE [a EXCEPT !.targetRect = NullRect, !.isOverText = FALSE]
       ELSE LET b == [a EXCEPT !.targetY = clientY + Px(PacerOffset)]
            IN IF ~b.settings.smoothFollow
               THEN PacerUpdatePosition([b EXCEPT !.currentY = b.targetY])
               ELSE b

\* handleMouseMove(e): clientY is e.clientY, throttled is the outcome of
\* now - lastCheckTime < throttleDelay, textRect is what
\* detectTextLineAtPoint(e.clientX, e.clientY) returns.
PacerHandleMouseMove(p, clientY, throttled, textRect) ==
    LET a == IF p.isScrolling
             THEN LET u == [p EXCEPT !.isScrolling = FALSE]
                  IN IF ~p.settings.scrollFade /\ p.element
                     THEN PacerStyle(u, [p.style EXCEPT !.display = "block"])
                     ELSE u
             ELSE p
    IN IF a.settings.smartDetection
       THEN IF throttled THEN a
            ELSE IF ~textRect.null /\ textRect.width >= Px(minLineWidth)
                 THEN [a EXCEPT !.targetRect = textRect, !.isOverText = TRUE]
                 ELSE [a EXCEPT !.targetRect = NullRect, !.isOverText = FALSE]
       ELSE LET b == [a EXCEPT !.targetY = clientY + Px(PacerOffset)]
            IN IF ~b.settings.smoothFollow
               THEN PacerUpdatePosition([b EXCEPT !.currentY = b.targetY])
               ELSE b

\* ------------------------------------------------------------ the dimmer
minBlockWidth == 50
minBlockHeight == 20
WindowHeight == 60           \* settings.windowHeight as constructed

Max(a, b) == IF a >= b THEN a ELSE b
Min(a, b) == IF a <= b THEN a ELSE b

\* The Dimmer object after its constructor.  banner is TRUE when topOverlay
\* and bottomOverlay exist, focusBox when the focus box exists.
DimmerNew ==
    [enabled |-> FALSE, banner |-> FALSE, focusBox |-> FALSE,
     settings |-> [focusedBox |-> FALSE, scrollFade |-> TRUE,
                   windowHeight |-> Px(WindowHeight)],
     currentY |-> 0, targetY |-> 0, currentLeft |-> 0, targetLeft |-> 0,
     currentWidth |-> 0, targetWidth |-> 0,
     animationFrame |-> FALSE, pending |-> FALSE,
     isScrolling |-> FALSE, isOverBlock |-> FALSE, listeners |-> FALSE,
     controlMode |-> "mouse",
     bannerStyle |-> [display |-> "none", opacity |-> "default",
                      topHeight |-> Unset, bottomHeight |-> Unset],
     boxStyle |-> [display |-> "none", opacity |-> "default", top |-> Unset,
                   left |-> Unset, width |-> Unset, height |-> Unset],
     lateWrite |-> FALSE]

\* An assignment to topOverlay.style and bottomOverlay.style.
DimmerBannerStyle(d, style) ==
    [d EXCEPT !.bannerStyle = style, !.lateWrite = @ \/ ~d.enabled]

\* An assignment to focusBox.style.
DimmerBoxStyle(d, style) ==
    [d EXCEPT !.boxStyle = style, !.lateWrite = @ \/ ~d.enabled]

DimmerApplyBannerStyles(d) ==
    IF ~d.banner THEN d
    ELSE DimmerBannerStyle(d, [d.bannerStyle EXCEPT !.opacity = "opacity"])

DimmerApplyFocusBoxStyles(d) ==
    IF ~d.focusBox THEN d ELSE DimmerBoxStyle(d, d.boxStyle)

DimmerApplyStyles(d) ==
    IF d.settings.focusedBox THEN DimmerApplyFocusBoxStyles(d)
    ELSE DimmerApplyBannerStyles(d)

DimmerInitBannerMode(d) ==
    IF d.banner THEN d
    ELSE DimmerApplyBannerStyles(
           [d EXCEPT !.banner = TRUE,
                     !.bannerStyle = [display |-> "none", opacity |-> "default",
                                      topHeight |-> Unset, bottomHeight |-> Unset]])

DimmerInitFocusBox(d) ==
    IF d.focusBox THEN d
    ELSE DimmerApplyFocusBoxStyles(
           [d EXCEPT !.focusBox = TRUE,
                     !.boxStyle = [display |-> "none", opacity |-> "default",
                                   top |-> Unset, left |-> Unset,
                                   width |-> Unset, height |-> Unset]])

DimmerInit(d) ==
    IF d.settings.focusedBox THEN DimmerInitFocusBox(d) ELSE DimmerInitBannerMode(d)

DimmerDestroyElements(d) == [d EXCEPT !.banner = FALSE, !.focusBox = FALSE]

DimmerUpdateBannerPosition(d) ==
    IF ~d.banner THEN d
    ELSE LET halfWindow == d.settings.windowHeight \div 2
         IN DimmerBannerStyle(d,
              [d.bannerStyle EXCEPT
                 !.topHeight = PxLen(Max(0, d.currentY - halfWindow)),
                 !.bottomHeight =
                    PxLen(Max(0, Px(InnerHeight) - (d.currentY + halfWindow)))])

DimmerUpdateFocusBoxPosition(d) ==
    IF ~d.focusBox THEN d
    ELSE LET halfWindow == d.settings.windowHeight \div 2
         IN DimmerBoxStyle(d,
              [d.boxStyle EXCEPT
                 !.top = PxLen(d.currentY - halfWindow),
                 !.left = PxLen(d.currentLeft),
                 !.width = PxLen(RoundDiv(d.currentWidth * 105, 100)),
                 !.height = PxLen(d.settings.windowHeight),
                 !.opacity = IF d.isOverBlock /\ ~d.isScrolling THEN "1" ELSE "0"])

DimmerUpdatePosition(d) ==
    IF d.settings.focusedBox THEN DimmerUpdateFocusBoxPosition(d)
    ELSE DimmerUpdateBannerPosition(d)

DimmerAnimate(d) ==
    IF ~d.enabled THEN d
    ELSE LET a == [d EXCEPT !.currentY = Lerp(d.currentY, d.targetY, EaseDimmer)]
             b == IF d.settings.focusedBox
                  THEN [a EXCEPT
                          !.currentLeft = Lerp(d.currentLeft, d.targetLeft, EaseDimmer),
                          !.currentWidth = Lerp(d.currentWidth, d.targetWidth, EaseDimmer)]
                  ELSE a
         IN [DimmerUpdatePosition(b) EXCEPT !.animationFrame = TRUE, !.pending = TRUE]

DimmerStartAnimation(d) == IF d.animationFrame THEN d ELSE DimmerAnimate(d)

DimmerStopAnimation(d) ==
    IF d.animationFrame
    THEN [d EXCEPT !.animationFrame = FALSE, !.pending = FALSE]
    ELSE d

DimmerEnable(d) ==
    IF d.enabled THEN d
    ELSE LET a == [DimmerInit(d) EXCEPT !.enabled = TRUE]
             b == IF a.settings.focusedBox
                  THEN [a EXCEPT !.boxStyle = [a.boxStyle EXCEPT !.display = "block",
                                                                !.opacity = "0"],
                                 !.isOverBlock = FALSE]
                  ELSE [a EXCEPT !.bannerStyle = [a.bannerStyle EXCEPT
                                                    !.display = "block"]]
             c == [b EXCEPT !.currentY = Px(InnerHeight) \div 2,
                            !.targetY = Px(InnerHeight) \div 2,
                            !.currentLeft = 0, !.targetLeft = 0,
                            !.currentWidth = Px(InnerWidth),
                            !.targetWidth = Px(InnerWidth)]
             e == IF ~c.settings.focusedBox THEN DimmerUpdatePosition(c) ELSE c
             f == DimmerStartAnimation(
                    [e EXCEPT !.isScrolling = FALSE, !.listeners = TRUE])
         IN [f EXCEPT !.lateWrite = d.lateWrite]

DimmerDisable(d) ==
    IF ~d.enabled THEN d
    ELSE DimmerStopAnimation(
           [d EXCEPT !.enabled = FALSE,
                     !.bannerStyle = IF d.banner THEN [@ EXCEPT !.display = "none"] ELSE @,
                     !.boxStyle = IF d.focusBox THEN [@ EXCEPT !.display = "none"] ELSE @,
                     !.listeners = FALSE,
                     !.isScrolling = FALSE])

DimmerToggle(d) == IF d.enabled THEN DimmerDisable(d) ELSE DimmerEnable(d)

DimmerUpdateSettings(d, newSettings) ==
    LET modeChanged == newSettings.focusedBox # d.settings.focusedBox
        a == [d EXCEPT !.settings = newSettings]
    IN IF modeChanged /\ d.enabled
       THEN DimmerEnable(DimmerDestroyElements(DimmerDisable(a)))
       ELSE LET b == DimmerApplyStyles(a)
            IN IF b.enabled THEN DimmerUpdatePosition(b) ELSE b

DimmerHideForScroll(d) ==
    IF d.settings.focusedBox
    THEN IF ~d.focusBox THEN d
         ELSE DimmerBoxStyle(d, IF d.settings.scrollFade
                                THEN [d.boxStyle EXCEPT !.opacity = "0"]
                                ELSE [d.boxStyle EXCEPT !.display = "none"])
    ELSE IF ~d.banner THEN d
         ELSE DimmerBannerStyle(d, IF d.settings.scrollFade
                                   THEN [d.bannerStyle EXCEPT !.opacity = "0"]
                                   ELSE [d.bannerStyle EXCEPT !.display = "none"])

DimmerHandleScroll(d) ==
    IF ~d.isScrolling THEN DimmerHideForScroll([d EXCEPT !.isScrolling = TRUE])
    ELSE d

DimmerShowAfterScroll(d) ==
    IF ~d.enabled THEN d
    ELSE IF d.settings.focusedBox
    THEN IF ~d.focusBox THEN d
         ELSE IF d.isOverBlock
              THEN DimmerBoxStyle(d, IF d.settings.scrollFade
                                     THEN [d.boxStyle EXCEPT !.opacity = "1"]
                                     ELSE [d.boxStyle EXCEPT !.display = "block"])
              ELSE d
    ELSE IF ~d.banner THEN d
         ELSE DimmerBannerStyle(d, IF d.settings.scrollFade
                                   THEN [d.bannerStyle EXCEPT !.opacity = "opacity"]
                                   ELSE [d.bannerStyle EXCEPT !.display = "block"])

\* detectBlockAtPoint(x, y): block is the bounding rect of the block ancestor
\* of the element under the point, or NullRect when the point is over an
\* interactive element, over no element, or over the body.
DimmerDetectBlockAtPoint(d, block) ==
    IF block.null THEN [d EXCEPT !.isOverBlock = FALSE]
    ELSE IF block.width < Px(minBlockWidth) \/ block.height < Px(minBlockHeight)
         THEN [d EXCEPT !.isOverBlock = FALSE]
         ELSE [d EXCEPT !.isOverBlock = TRUE,
                        !.targetLeft = block.left,
                        !.targetWidth = block.width]

\* handleMouseMove made to place the window under the pointer at once.
DimmerHandleMouseMoveSnap(d, clientY, block) ==
    LET a == [d EXCEPT !.targetY = clientY, !.currentY = clientY]
        b == IF a.isScrolling
             THEN DimmerShowAfterScroll([a EXCEPT !.isScrolling = FALSE])
             ELSE a
    IN IF b.settings.focusedBox THEN DimmerDetectBlockAtPoint(b, block) ELSE b

DimmerHandleMouseMove(d, clientY, block) ==
    LET a == [d EXCEPT !.targetY = clientY]
        b == IF a.isScrolling
             THEN DimmerShowAfterScroll([a EXCEPT !.isScrolling = FALSE])
             ELSE a
    IN IF b.settings.focusedBox THEN DimmerDetectBlockAtPoint(b, block) ELSE b

\* --------------------------------------------- methods main.js calls that
\* --------------------------------------------- this Pacer and Dimmer lack
\* main.js calls setControlMode(mode), show() and hide() on both objects.
\* They are taken to record the mode and to switch the overlay's display.
PacerSetControlMode(p, mode) == [p EXCEPT !.controlMode = mode]

PacerShow(p) ==
    IF ~p.element THEN p ELSE PacerStyle(p, [p.style EXCEPT !.display = "block"])

PacerHide(p) ==
    IF ~p.element THEN p ELSE PacerStyle(p, [p.style EXCEPT !.display = "none"])

DimmerSetControlMode(d, mode) == [d EXCEPT !.controlMode = mode]

DimmerShow(d) ==
    IF d.settings.focusedBox
    THEN IF ~d.focusBox THEN d
         ELSE DimmerBoxStyle(d, [d.boxStyle EXCEPT !.display = "block"])
    ELSE IF ~d.banner THEN d
         ELSE DimmerBannerStyle(d, [d.bannerStyle EXCEPT !.display = "block"])

DimmerHide(d) ==
    IF d.settings.focusedBox
    THEN IF ~d.focusBox THEN d
         ELSE DimmerBoxStyle(d, [d.boxStyle EXCEPT !.display = "none"])
    ELSE IF ~d.banner THEN d
         ELSE DimmerBannerStyle(d, [d.bannerStyle EXCEPT !.display = "none"])

\* ---------------------------------------------------------- the RSVP player
\* A text is a sequence of runs: a word, or a run of white space.  A chunk,
\* words.slice(i, i + chunkSize).join(' '), is kept as the tuple of its words.
Space == " "
Complete == <<"Complete!">>
minWpm == 50
maxWpm == 1000
DefaultWpm == 300            \* settings.wpm as constructed

\* The RSVPPlayer object after its constructor.  intervalId 0 is null.
\* session, shown and completions are spies: the number of calls of start()
\* that opened the overlay, the values written to wordDisplay.textContent by
\* showCurrentWord since the last of them, and the calls of complete() since.
RsvpNew ==
    [overlay |-> FALSE, display |-> "none", textContent |-> <<>>,
     words |-> <<>>, currentIndex |-> 0, isPlaying |-> FALSE, intervalId |-> 0,
     settings |-> [wpm |-> DefaultWpm, chunkSize |-> 1],
     session |-> 0, shown |-> <<>>, completions |-> 0]

\* The timers of the page: the ids of the pending word timers, and for each
\* pending auto-close timer the session whose completion scheduled it, in
\* the order they were set (all have the same delay).
NoTimers == [word |-> {}, exit |-> <<>>]

\* setTimeout returns an id no pending timer has and the player does not hold.
FreshTimer(w) ==
    CHOOSE i \in 1 .. Cardinality(w.timers.word) + 2 :
       i \notin w.timers.word /\ i # w.rsvp.intervalId

\* text.trim().length === 0
IsBlankText(text) == \A i \in 1 .. Len(text) : text[i] = Space

RsvpInit(w) == [w EXCEPT !.rsvp.overlay = TRUE]

RsvpUpdateSettings(w, newSettings) == [w EXCEPT !.rsvp.settings = newSettings]

RECURSIVE Chunks(_, _)
Chunks(words, chunkSize) ==
    IF words = <<>> THEN <<>>
    ELSE IF Len(words) <= chunkSize THEN <<words>>
    ELSE <<SubSeq(words, 1, chunkSize)>>
         \o Chunks(SubSeq(words, chunkSize + 1, Len(words)), chunkSize)

IsWordRun(run) == run # Space

RsvpTokenize(settings, text) ==
    LET words == SelectSeq(text, IsWordRun)
    IN IF settings.chunkSize > 1 THEN Chunks(words, settings.chunkSize)
       ELSE [i \in 1 .. Len(words) |-> <<words[i]>>]

\* pause() without its call of clearTimeout.
RsvpPauseKeepingTimer(w) ==
    IF ~w.rsvp.isPlaying THEN w
    ELSE [w EXCEPT !.rsvp.isPlaying = FALSE, !.rsvp.intervalId = 0]

\* pause()
RsvpPause(w) ==
    IF ~w.rsvp.isPlaying THEN w
    ELSE LET a == [w EXCEPT !.rsvp.isPlaying = FALSE]
         IN IF a.rsvp.intervalId # 0
            THEN [a EXCEPT !.timers.word = @ \ {a.rsvp.intervalId},
                           !.rsvp.intervalId = 0]
            ELSE a

\* exit() without its call of keybindingManager.setContext('default').
RsvpExitKeepingContext(w) ==
    LET a == RsvpPause(w)
    IN IF a.rsvp.overlay THEN [a EXCEPT !.rsvp.display = "none"] ELSE a

\* exit(); onExit is never assigned.
RsvpExit(w) ==
    LET a == RsvpPause(w)
        b == IF a.rsvp.overlay THEN [a EXCEPT !.rsvp.display = "none"] ELSE a
    IN [b EXCEPT !.keys.context = "default"]

\* complete(); updateStats() and the auto-close timer are counted.
RsvpComplete(w) ==
    LET a == RsvpPause(w)
    IN [a EXCEPT !.rsvp.textContent = Complete,
                 !.rsvp.completions = @ + 1,
                 !.timers.exit = Append(@, a.rsvp.session)]

RsvpShowCurrentWord(w) ==
    IF w.rsvp.currentIndex >= Len(w.rsvp.words) THEN RsvpComplete(w)
    ELSE LET word == w.rsvp.words[w.rsvp.currentIndex + 1]
         IN [w EXCEPT !.rsvp.textContent = word, !.rsvp.shown = Append(@, word)]

RsvpScheduleNextWord(w) ==
    IF ~w.rsvp.isPlaying THEN w
    ELSE LET id == FreshTimer(w)
         IN [w EXCEPT !.rsvp.intervalId = id, !.timers.word = @ \cup {id}]

\* play() stepping to the next word before it schedules the timer.
RsvpPlayAdvancing(w) ==
    IF w.rsvp.isPlaying THEN w
    ELSE RsvpScheduleNextWord([w EXCEPT !.rsvp.isPlaying = TRUE,
                                        !.rsvp.currentIndex = @ + 1])

RsvpPlay(w) ==
    IF w.rsvp.isPlaying THEN w
    ELSE RsvpScheduleNextWord([w EXCEPT !.rsvp.isPlaying = TRUE])

RsvpTogglePlay(w) == IF w.rsvp.isPlaying THEN RsvpPause(w) ELSE RsvpPlay(w)

RsvpAdjustSpeed(w, delta) ==
    LET a == [w EXCEPT !.rsvp.settings.wpm = Max(minWpm, Min(maxWpm, @ + delta))]
    IN IF a.rsvp.isPlaying THEN RsvpPlay(RsvpPause(a)) ELSE a

RsvpIsActive(r) == r.overlay /\ r.display = "flex"

RsvpStart(w, text) ==
    IF IsBlankText(text) THEN w
    ELSE LET a == RsvpInit(w)
             b == [a EXCEPT !.rsvp.words = RsvpTokenize(a.rsvp.settings, text),
                            !.rsvp.currentIndex = 0]
         IN IF Len(b.rsvp.words) = 0 THEN b
            ELSE LET c == [b EXCEPT !.rsvp.display = "flex",
                                    !.rsvp.session = @ + 1,
                                    !.rsvp.shown = <<>>,
                                    !.rsvp.completions = 0]
                     d == RsvpPlay(RsvpShowCurrentWord(c))
                 IN [d EXCEPT !.keys.context = "rsvp"]

\* The callback of scheduleNextWord's timer.
RsvpWordTimer(w, id) ==
    LET a == [w EXCEPT !.timers.word = @ \ {id}, !.rsvp.currentIndex = @ + 1]
        b == RsvpShowCurrentWord(a)
    IN IF b.rsvp.currentIndex < Len(b.rsvp.words) THEN RsvpScheduleNextWord(b)
       ELSE b

\* The callback of complete()'s timer.
RsvpExitTimer(w) == RsvpExit([w EXCEPT !.timers.exit = Tail(@)])

\* ------------------------------------------------------ the keybinding manager
\* A keydown event as the handlers read it.
KeyEvent(code, key, altKey, shiftKey, ctrlKey, metaKey) ==
    [code |-> code, key |-> key, altKey |-> altKey, shiftKey |-> shiftKey,
     ctrlKey |-> ctrlKey, metaKey |-> metaKey]

\* A binding of the settings; a binding without a context has context "".
Binding(key, modifiers, context) ==
    [key |-> key, modifiers |-> modifiers, context |-> context]

\* String.prototype.toLowerCase on the strings that occur: a string that is
\* not listed has no upper-case letter.
lowerCase ==
    ("A" :> "a") @@ ("B" :> "b") @@ ("C" :> "c") @@ ("D" :> "d") @@ ("P" :> "p")
    @@ ("R" :> "r") @@ ("S" :> "s") @@ ("X" :> "x") @@ ("Escape" :> "escape")
    @@ ("ArrowUp" :> "arrowup") @@ ("ArrowDown" :> "arrowdown")
    @@ ("ArrowLeft" :> "arrowleft") @@ ("ArrowRight" :> "arrowright")
    @@ ("Enter" :> "enter") @@ ("F5" :> "f5") @@ ("Shift" :> "shift")
    @@ ("Alt" :> "alt")
ToLowerCase(s) == IF s \in DOMAIN lowerCase THEN lowerCase[s] ELSE s

\* code.slice(3) of the codes that start with 'Key', code.slice(5) of those
\* that start with 'Digit'.
letterOf ==
    ("KeyA" :> "A") @@ ("KeyB" :> "B") @@ ("KeyC" :> "C") @@ ("KeyD" :> "D")
    @@ ("KeyP" :> "P") @@ ("KeyR" :> "R") @@ ("KeyS" :> "S") @@ ("KeyX" :> "X")
digitOf == ("Digit1" :> "1") @@ ("Digit2" :> "2")

\* codeMap of KeybindingManager.getPhysicalKey, but for its entries Quote,
\* Backslash and Backquote, which are of the same form.
codeMap ==
    ("Space" :> " ") @@ ("Escape" :> "escape") @@ ("ArrowUp" :> "arrowup")
    @@ ("ArrowDown" :> "arrowdown") @@ ("ArrowLeft" :> "arrowleft")
    @@ ("ArrowRight" :> "arrowright") @@ ("Equal" :> "=") @@ ("Minus" :> "-")
    @@ ("BracketLeft" :> "[") @@ ("BracketRight" :> "]") @@ ("Semicolon" :> ";")
    @@ ("Comma" :> ",") @@ ("Period" :> ".") @@ ("Slash" :> "/")

\* codeMap of the options page's getPhysicalKey
optionsCodeMap ==
    ("Space" :> " ") @@ ("Escape" :> "Escape") @@ ("ArrowUp" :> "ArrowUp")
    @@ ("ArrowDown" :> "ArrowDown") @@ ("ArrowLeft" :> "ArrowLeft")
    @@ ("ArrowRight" :> "ArrowRight") @@ ("Equal" :> "=") @@ ("Minus" :> "-")
    @@ ("BracketLeft" :> "[") @@ ("BracketRight" :> "]") @@ ("Semicolon" :> ";")
    @@ ("Comma" :> ",") @@ ("Period" :> ".") @@ ("Slash" :> "/")

\* getPhysicalKey with the codeMap and the fallback of the options page.
GetPhysicalKeyAsCaptured(event) ==
    IF event.code \in DOMAIN letterOf THEN ToLowerCase(letterOf[event.code])
    ELSE IF event.code \in DOMAIN digitOf THEN digitOf[event.code]
    ELSE IF event.code \in DOMAIN optionsCodeMap THEN optionsCodeMap[event.code]
    ELSE event.key

\* KeybindingManager.getPhysicalKey(event)
GetPhysicalKey(event) ==
    IF event.code \in DOMAIN letterOf THEN ToLowerCase(letterOf[event.code])
    ELSE IF event.code \in DOMAIN digitOf THEN digitOf[event.code]
    ELSE IF event.code \in DOMAIN codeMap THEN codeMap[event.code]
    ELSE ToLowerCase(event.key)

\* matchesBinding without its test of event.metaKey.
MatchesBindingButMeta(event, binding) ==
    IF binding.key = "" THEN FALSE
    ELSE IF GetPhysicalKey(event) # ToLowerCase(binding.key) THEN FALSE
    ELSE /\ event.altKey = ("Alt" \in binding.modifiers)
         /\ event.shiftKey = ("Shift" \in binding.modifiers)
         /\ event.ctrlKey = ("Ctrl" \in binding.modifiers)

\* matchesBinding(event, binding)
MatchesBinding(event, binding) ==
    IF binding.key = "" THEN FALSE
    ELSE IF GetPhysicalKey(event) # ToLowerCase(binding.key) THEN FALSE
    ELSE /\ event.altKey = ("Alt" \in binding.modifiers)
         /\ event.shiftKey = ("Shift" \in binding.modifiers)
         /\ event.ctrlKey = ("Ctrl" \in binding.modifiers)
         /\ event.metaKey = ("Meta" \in binding.modifiers)

\* findMatchingAction over Object.entries(this.bindings) from entry i on;
\* "null" when no entry matches.
RECURSIVE FindMatchingFrom(_, _, _, _)
FindMatchingFrom(bindings, context, event, i) ==
    IF i > Len(bindings) THEN "null"
    ELSE LET binding == bindings[i].binding
         IN IF /\ MatchesBinding(event, binding)
               /\ ~(binding.context # "" /\ binding.context # context)
            THEN bindings[i].action
            ELSE FindMatchingFrom(bindings, context, event, i + 1)

FindMatchingAction(keys, event) ==
    FindMatchingFrom(keys.bindings, keys.context, event, 1)

Entry(action, key, modifiers, context) ==
    [action |-> action, binding |-> Binding(key, modifiers, context)]

\* settings.keybindings of getDefaultSettings(), in the order of its entries.
DefaultBindings ==
    << Entry("togglePacer", "p", {"Alt", "Shift"}, ""),
       Entry("toggleDimmer", "d", {"Alt", "Shift"}, ""),
       Entry("toggleBoth", "b", {"Alt", "Shift"}, ""),
       Entry("disableAll", "x", {"Alt", "Shift"}, ""),
       Entry("startRsvp", "r", {"Alt", "Shift"}, ""),
       Entry("rsvpPause", " ", {}, "rsvp"),
       Entry("rsvpSpeedUp", "ArrowRight", {}, "rsvp"),
       Entry("rsvpSpeedDown", "ArrowLeft", {}, "rsvp"),
       Entry("rsvpExit", "Escape", {}, "rsvp"),
       Entry("increaseWindowHeight", "ArrowUp", {"Alt", "Shift"}, ""),
       Entry("decreaseWindowHeight", "ArrowDown", {"Alt", "Shift"}, ""),
       Entry("increaseOpacity", "=", {"Alt", "Shift"}, ""),
       Entry("decreaseOpacity", "-", {"Alt", "Shift"}, ""),
       Entry("toggleCursor", "c", {"Alt", "Shift"}, ""),
       Entry("reselectReadingElement", "s", {"Alt", "Shift"}, ""),
       Entry("convertToMarkdown", "m", {"Alt", "Shift"}, "") >>

\* The KeybindingManager after init(settings.keybindings).  matched is a spy:
\* the action whose handler the last keydown event ran, "null" if none ran.
KeybindingManagerLoaded ==
    [bindings |-> DefaultBindings, context |-> "default", enabled |-> TRUE,
     matched |-> "null"]

\* ------------------------------------------- key capture on the options page
OptionsGetPhysicalKey(event) ==
    IF event.code \in DOMAIN letterOf THEN ToLowerCase(letterOf[event.code])
    ELSE IF event.code \in DOMAIN digitOf THEN digitOf[event.code]
    ELSE IF event.code \in DOMAIN optionsCodeMap THEN optionsCodeMap[event.code]
    ELSE event.key

\* if (e.altKey) capturedBinding.modifiers.push('Alt'), and the like
Held(flag, modifier) == IF flag THEN {modifier} ELSE {}

\* handleKeyCapture(e) while the modal edits a binding whose context is
\* originalContext: captured is FALSE when the event closes the modal.
HandleKeyCapture(event, originalContext) ==
    IF event.code = "Escape" /\ ~event.altKey /\ ~event.shiftKey /\ ~event.ctrlKey
    THEN [captured |-> FALSE, binding |-> Binding("", {}, "")]
    ELSE [captured |-> TRUE,
          binding |-> Binding(OptionsGetPhysicalKey(event),
                              Held(event.altKey, "Alt") \cup Held(event.shiftKey, "Shift")
                              \cup Held(event.ctrlKey, "Ctrl")
                              \cup Held(event.metaKey, "Meta"),
                              originalContext)]

\* ---------------------------------------------------------- content script
VARIABLES
    pacer,                  \* the global Pacer instance
    dimmer,                 \* the global Dimmer instance
    controlMode,            \* 'mouse' or 'keyboard'
    keyboardView,           \* 'narrow' or 'broad'
    pinned,                 \* pinnedElement is not null
    readingPin,             \* readingPin.requestedTarget while the picker is
                            \* active, "none" otherwise
    keyboardPausedByMouse,
    follower,               \* one axis of a follower whose target is held
    line,                   \* one call of getVisualLineRect
    rsvpPlayer,             \* the global RSVPPlayer instance
    keybindingManager,      \* the global KeybindingManager instance
    timers,                 \* the pending timers of the RSVP player
    cursorHidden,
    settings,               \* the content script's settings object
    storage,                \* chrome.storage.local, its change events and the
                            \* messages in flight
    keyEvent                \* the keydown event followed last

vars == <<pacer, dimmer, controlMode, keyboardView, pinned, readingPin,
          keyboardPausedByMouse, follower, line, rsvpPlayer, keybindingManager,
          timers, cursorHidden, settings, storage, keyEvent>>

\* What the overlays' handlers leave alone.
session == <<rsvpPlayer, keybindingManager, timers, cursorHidden, settings,
             storage, keyEvent>>

\* getDefaultSettings(): the fields of the settings object that the handlers
\* modelled here read or write.
DefaultSettings ==
    [pacerEnabled |-> FALSE, dimmerEnabled |-> FALSE,
     windowHeight |-> Px(WindowHeight), mode |-> "mouse",
     keyboardView |-> "narrow", wpm |-> DefaultWpm, chunkSize |-> 1]

\* chrome.storage.local holding the settings, with no change event and no
\* message on its way, and the popup idle.
StorageLoaded ==
    [store |-> DefaultSettings, events |-> <<>>, messages |-> <<>>,
     popup |-> [pc |-> "idle", settings |-> DefaultSettings, saves |-> 0]]

KeyEventIdle == [called |-> FALSE]

SessionLoaded ==
    /\ rsvpPlayer = RsvpNew
    /\ keybindingManager = KeybindingManagerLoaded
    /\ timers = NoTimers
    /\ cursorHidden = FALSE
    /\ settings = DefaultSettings
    /\ storage = StorageLoaded
    /\ keyEvent = KeyEventIdle

\* The content script as loaded, before any event.
Loaded ==
    /\ pacer = PacerNew
    /\ dimmer = DimmerNew
    /\ controlMode = "mouse"
    /\ keyboardView = "narrow"
    /\ pinned = FALSE
    /\ readingPin = "none"
    /\ keyboardPausedByMouse = FALSE
    /\ SessionLoaded

FollowerIdle == [start |-> 0, current |-> 0, target |-> 0, ease |-> EaseDimmer,
                 frames |-> 0]
LineIdle == [called |-> FALSE, rects |-> <<>>, referenceY |-> 0, referenceHeight |-> 0,
             isPreformatted |-> FALSE, lineRects |-> <<>>,
             result |-> NullRect]

\* What the page can put under the pointer: the pointer's clientY, the line
\* rectangles detectTextLineAtPoint can return, the block rectangles
\* detectBlockAtPoint can find, and the lines of the pinned element.
MouseYs == {Px(MaxMouseY)}
LineA == Rect(4, 2, 20, 20)
LineB == Rect(4, 2, 20, 40)
LineNarrow == Rect(4, 2, 10, 20)
TextRects == {NullRect, LineA, LineB, LineNarrow}
BlockA == Rect(0, 0, InnerWidth, 100)
BlockB == Rect(0, 2, InnerWidth - 2, 100)
BlockSmall == Rect(0, 0, 40, 100)
BlockRects == {NullRect, BlockA, BlockB, BlockSmall}
KeyboardLines == {LineB}

PacerSettings == [smartDetection : BOOLEAN, smoothFollow : BOOLEAN, scrollFade : BOOLEAN]
DimmerSettings ==
    [focusedBox : BOOLEAN, scrollFade : BOOLEAN, windowHeight : {Px(WindowHeight)}]

\* A handler starts with the spy cleared.
Fresh(o) == [o EXCEPT !.lateWrite = FALSE]

\* A run exercises one overlay: the other stays as constructed.  The two
\* objects share no state, and main.js reaches each through its own methods.
PacerIdle == [pacer EXCEPT !.controlMode = "mouse"] = PacerNew
DimmerIdle == [dimmer EXCEPT !.controlMode = "mouse"] = DimmerNew
OneFeature == PacerIdle \/ DimmerIdle

Init ==
    /\ Loaded
    /\ follower = FollowerIdle
    /\ line = LineIdle

\* The part of the content script's state a handler passes along.
Here == [pacer |-> Fresh(pacer), dimmer |-> Fresh(dimmer), pinned |-> pinned,
         readingPin |-> readingPin, paused |-> keyboardPausedByMouse,
         cursorHidden |-> cursorHidden]

\* setCursorHidden(hide)
SetCursorHidden(st, hide) == [st EXCEPT !.cursorHidden = hide]

Becomes(st) ==
    /\ pacer' = st.pacer
    /\ dimmer' = st.dimmer
    /\ pinned' = st.pinned
    /\ readingPin' = st.readingPin
    /\ keyboardPausedByMouse' = st.paused

\* startReadingPin(target)
StartReadingPin(st, target) ==
    IF st.readingPin # "none" THEN st ELSE [st EXCEPT !.readingPin = target]

\* cancelReadingPin()
CancelReadingPin(st) == [st EXCEPT !.readingPin = "none"]

EnableKeyboardNarrow(st, target) ==
    IF target = "pacer" THEN [st EXCEPT !.pacer = PacerEnable(@)]
    ELSE IF target = "dimmer" THEN [st EXCEPT !.dimmer = DimmerEnable(@)]
    ELSE [st EXCEPT !.pacer = PacerEnable(@), !.dimmer = DimmerEnable(@)]

HideEnabled(st) ==
    [st EXCEPT !.pacer = IF @.enabled THEN PacerHide(@) ELSE @,
               !.dimmer = IF @.enabled THEN DimmerHide(@) ELSE @]

ShowEnabled(st) ==
    [st EXCEPT !.pacer = IF @.enabled THEN PacerShow(@) ELSE @,
               !.dimmer = IF @.enabled THEN DimmerShow(@) ELSE @]

\* updateKeyboardVisuals(rect); pinRect is pinnedElement.getBoundingClientRect()
UpdateKeyboardVisuals(st, rect, pinRect) ==
    IF rect.null THEN st
    ELSE LET centerY == rect.top + rect.height \div 2
             targetHeight == Max(Px(20), Min(Px(200), rect.height + Px(6)))
             p == IF st.pacer.enabled
                  THEN LET a == PacerShow(st.pacer)
                       IN IF ~a.element THEN a
                          ELSE PacerStyle(a, [a.style EXCEPT
                                 !.top = PxLen(rect.top + rect.height
                                               - Px(PacerHeight) \div 2),
                                 !.left = PxLen(rect.left),
                                 !.width = PxLen(rect.width),
                                 !.opacity = "opacity"])
                  ELSE st.pacer
             d == IF st.dimmer.enabled
                  THEN LET a == [DimmerShow(st.dimmer) EXCEPT
                                    !.settings.windowHeight = targetHeight,
                                    !.currentY = centerY,
                                    !.targetY = centerY]
                           b == IF a.settings.focusedBox /\ st.pinned
                                THEN [a EXCEPT !.isOverBlock = TRUE,
                                               !.targetLeft = pinRect.left,
                                               !.targetWidth = pinRect.width]
                                ELSE a
                       IN DimmerUpdatePosition(b)
                  ELSE st.dimmer
         IN [st EXCEPT !.pacer = p, !.dimmer = d]

\* moveKeyboardLine(direction, forceInit).  lost: the pinned element is no
\* longer in the document.  outcome: what the line cache holds once it is
\* rebuilt: "nolines" (no readable text in view), "line" (rect is the line
\* the cursor lands on, also after a page turn), "turnEmpty" (a page turn
\* that finds no line).
MoveKeyboardLine(st, lost, outcome, rect, pinRect) ==
    IF controlMode # "keyboard" \/ keyboardView = "broad" \/ st.readingPin # "none"
    THEN st
    ELSE IF ~st.pinned THEN StartReadingPin(st, "both")
    ELSE IF lost THEN [HideEnabled(st) EXCEPT !.pinned = FALSE]
    ELSE LET a == IF ~st.pacer.enabled /\ ~st.dimmer.enabled
                  THEN EnableKeyboardNarrow(st, "both") ELSE st
             b == IF a.paused THEN ShowEnabled([a EXCEPT !.paused = FALSE]) ELSE a
         IN IF outcome = "nolines" THEN b
            ELSE IF outcome = "turnEmpty" THEN HideEnabled(b)
            ELSE UpdateKeyboardVisuals(b, rect, pinRect)

\* startKeyboardModeToggle(target)
StartKeyboardModeToggle(st, target) ==
    IF keyboardView = "broad"
    THEN [st EXCEPT !.pacer = PacerDisable(@), !.dimmer = DimmerDisable(@)]
    ELSE IF target = "pacer" /\ st.pacer.enabled
         THEN [st EXCEPT !.pacer = PacerDisable(@)]
    ELSE IF target = "dimmer" /\ st.dimmer.enabled
         THEN SetCursorHidden([st EXCEPT !.dimmer = DimmerDisable(@)], FALSE)
    ELSE IF target = "both" /\ (st.pacer.enabled \/ st.dimmer.enabled)
         THEN [st EXCEPT !.pacer = PacerDisable(@), !.dimmer = DimmerDisable(@)]
    ELSE IF st.pinned THEN EnableKeyboardNarrow(st, target)
    ELSE StartReadingPin(st, target)

\* applyControlMode(), with controlMode and keyboardView already assigned
ApplyControlMode(st, mode, view) ==
    LET a == [st EXCEPT !.pacer = PacerSetControlMode(@, mode),
                        !.dimmer = DimmerSetControlMode(@, mode)]
    IN IF mode = "keyboard"
       THEN IF view = "broad"
            THEN SetCursorHidden([a EXCEPT !.pacer = PacerDisable(@),
                                           !.dimmer = DimmerDisable(@)], FALSE)
            ELSE a
       ELSE [CancelReadingPin(a) EXCEPT !.paused = FALSE, !.pinned = FALSE]

\* keybinding togglePacer
TogglePacer ==
    /\ Becomes(IF controlMode = "keyboard" THEN StartKeyboardModeToggle(Here, "pacer")
               ELSE [Here EXCEPT !.pacer = PacerToggle(@)])
    /\ UNCHANGED <<controlMode, keyboardView>>

\* keybinding toggleDimmer
ToggleDimmer ==
    /\ Becomes(IF controlMode = "keyboard" THEN StartKeyboardModeToggle(Here, "dimmer")
               ELSE [Here EXCEPT !.dimmer = DimmerToggle(@)])
    /\ UNCHANGED <<controlMode, keyboardView>>

\* handleReadingPinClick on a readable element
PinClick(lost, outcome, rect, pinRect) ==
    /\ readingPin # "none"
    /\ LET a == [CancelReadingPin(Here) EXCEPT !.pinned = TRUE, !.paused = FALSE]
           b == EnableKeyboardNarrow(a, readingPin)
       IN Becomes(MoveKeyboardLine(b, lost, outcome, rect, pinRect))
    /\ UNCHANGED <<controlMode, keyboardView>>

\* handleKeyboardModeArrowKeys for ArrowUp or ArrowDown
ArrowKey(lost, outcome, rect, pinRect) ==
    /\ controlMode = "keyboard"
    /\ keyboardView # "broad"
    /\ readingPin = "none"
    /\ pacer.enabled \/ dimmer.enabled
    /\ Becomes(MoveKeyboardLine(Here, lost, outcome, rect, pinRect))
    /\ UNCHANGED <<controlMode, keyboardView>>

\* handleKeyboardModeMouseMove
KeyboardModeMouseMove(st) ==
    IF controlMode # "keyboard" \/ (~st.pacer.enabled /\ ~st.dimmer.enabled)
       \/ keyboardView = "broad"
    THEN st
    ELSE HideEnabled([st EXCEPT !.paused = TRUE])

\* handleKeyboardModeScroll; navigating is keyboardNavigationActive
KeyboardModeScroll(st, navigating) ==
    IF controlMode # "keyboard" \/ (~st.pacer.enabled /\ ~st.dimmer.enabled)
       \/ keyboardView = "broad" \/ navigating
    THEN st
    ELSE HideEnabled([st EXCEPT !.paused = TRUE])

FeatureMouseMove(st, clientY, throttled, textRect, block) ==
    [st EXCEPT
       !.pacer = IF @.listeners
                 THEN PacerHandleMouseMove(@, clientY, throttled, textRect) ELSE @,
       !.dimmer = IF @.listeners THEN DimmerHandleMouseMove(@, clientY, block) ELSE @]

\* One mousemove event on the document, delivered to the listeners
\* registered; keyboardFirst is their registration order.
MouseMove(clientY, throttled, textRect, block, keyboardFirst) ==
    /\ pacer.listeners \/ dimmer.listeners
    /\ Becomes(IF keyboardFirst
               THEN FeatureMouseMove(KeyboardModeMouseMove(Here),
                                     clientY, throttled, textRect, block)
               ELSE KeyboardModeMouseMove(
                      FeatureMouseMove(Here, clientY, throttled, textRect, block)))
    /\ UNCHANGED <<controlMode, keyboardView>>

\* One scroll event on the window.
Scroll(navigating) ==
    /\ pacer.listeners \/ dimmer.listeners
    /\ Becomes(KeyboardModeScroll(
         [Here EXCEPT
            !.pacer = IF @.listeners THEN PacerHandleScroll(@) ELSE @,
            !.dimmer = IF @.listeners THEN DimmerHandleScroll(@) ELSE @],
         navigating))
    /\ UNCHANGED <<controlMode, keyboardView>>

\* The callback the pacer has queued runs.
PacerFrame(p) ==
    IF p.pending = "animateSmart" THEN PacerAnimateSmart([p EXCEPT !.pending = "none"])
    ELSE IF p.pending = "animate" THEN PacerAnimate([p EXCEPT !.pending = "none"])
    ELSE p

DimmerFrame(d) ==
    IF d.pending THEN DimmerAnimate([d EXCEPT !.pending = FALSE]) ELSE d

\* One animation frame: the browser runs every callback queued for it.
Frame ==
    /\ pacer.pending # "none" \/ dimmer.pending
    /\ pacer' = PacerFrame(Fresh(pacer))
    /\ dimmer' = DimmerFrame(Fresh(dimmer))
    /\ UNCHANGED <<controlMode, keyboardView, pinned, readingPin, keyboardPausedByMouse>>

\* applySettings(settings): pacerOn and dimmerOn are what
\* getEffectiveEnabled returns for the two features.
AppliedSettings(st, ps, ds, mode, view, pacerOn, dimmerOn) ==
    LET a == ApplyControlMode(st, mode, view)
        off == mode = "keyboard" /\ (view = "broad" \/ ~a.pinned)
        p == PacerUpdateSettings(a.pacer, ps)
        d == DimmerUpdateSettings(a.dimmer, ds)
    IN [a EXCEPT
          !.pacer = IF ~off /\ pacerOn THEN PacerEnable(p) ELSE PacerDisable(p),
          !.dimmer = IF ~off /\ dimmerOn THEN DimmerEnable(d) ELSE DimmerDisable(d),
          !.cursorHidden = IF ~off /\ dimmerOn THEN @ ELSE FALSE]

ApplySettings(ps, ds, mode, view, pacerOn, dimmerOn) ==
    /\ controlMode' = mode
    /\ keyboardView' = view
    /\ Becomes(AppliedSettings(Here, ps, ds, mode, view, pacerOn, dimmerOn))

\* handleMessage for SESSION_CONTROL_MODE
SessionControlMode(mode, view) ==
    /\ controlMode' = mode
    /\ keyboardView' = view
    /\ Becomes(ApplyControlMode(Here, mode, view))

Modes == {"mouse", "keyboard"}
Views == {"narrow", "broad"}
Outcomes == {"nolines", "line", "turnEmpty"}

\* The inputs an event can carry.  An input that the handlers registered in
\* the current state never read is held at one value, and the settings of an
\* overlay that stays as constructed are not rewritten.
MoveYs == IF pacer.listeners /\ pacer.settings.smartDetection THEN {Px(MaxMouseY)}
          ELSE MouseYs
MoveThrottles == IF pacer.listeners /\ pacer.settings.smartDetection THEN BOOLEAN
                 ELSE {FALSE}
MoveTextRects == IF pacer.listeners /\ pacer.settings.smartDetection THEN TextRects
                 ELSE {NullRect}
MoveBlocks == IF dimmer.listeners /\ dimmer.settings.focusedBox THEN BlockRects
              ELSE {NullRect}
ListenerOrders == IF controlMode = "keyboard" THEN BOOLEAN ELSE {FALSE}
PacerOns == IF DimmerIdle THEN BOOLEAN ELSE {FALSE}
DimmerOns == IF PacerIdle THEN BOOLEAN ELSE {FALSE}
PacerUpdates ==
    IF DimmerIdle /\ (controlMode = "mouse" \/ ~pacer.element) THEN PacerSettings
    ELSE {pacer.settings}
DimmerUpdates ==
    IF PacerIdle /\ (controlMode = "mouse" \/ (~dimmer.banner /\ ~dimmer.focusBox))
    THEN DimmerSettings
    ELSE {dimmer.settings}
\* The control mode is chosen before the first overlay is built.
ModeUpdates ==
    IF ~pacer.element /\ ~dimmer.banner /\ ~dimmer.focusBox THEN Modes
    ELSE {controlMode}
ViewsOf(mode) == IF mode = "keyboard" THEN Views ELSE {keyboardView}

Next ==
    /\ \/ TogglePacer
       \/ ToggleDimmer
       \/ \E lost \in BOOLEAN, o \in Outcomes, r \in KeyboardLines :
             PinClick(lost, o, r, BlockB)
       \/ \E lost \in BOOLEAN, o \in Outcomes, r \in KeyboardLines :
             ArrowKey(lost, o, r, BlockB)
       \/ \E y \in MoveYs, th \in MoveThrottles, r \in MoveTextRects,
             b \in MoveBlocks, kf \in ListenerOrders : MouseMove(y, th, r, b, kf)
       \/ \E n \in BOOLEAN : Scroll(n)
       \/ Frame
       \/ \E ps \in PacerUpdates, ds \in DimmerUpdates, m \in ModeUpdates,
             po \in PacerOns, do \in DimmerOns :
            \E v \in ViewsOf(m) : ApplySettings(ps, ds, m, v, po, do)
       \/ \E m \in ModeUpdates : \E v \in ViewsOf(m) : SessionControlMode(m, v)
    /\ OneFeature'
    /\ UNCHANGED <<follower, line>>
    /\ UNCHANGED session

Spec == Init /\ [][Next]_vars

\* ------------------------------------------- the easing step on one axis
\* animate(), animateSmart() and Dimmer.animate() apply the same statement to
\* each axis.  Here one axis is followed at a resolution of Resolution counts
\* per px, from every start within MaxDistance px of a target that is held.
Resolution == 10
MaxDistance == 8
MaxFrames == 60
OtherEases == {5, 50, 95}
Eases == {EaseDimmer, EaseClassic, EaseSmart} \cup OtherEases

InitEase ==
    /\ Loaded
    /\ line = LineIdle
    /\ \E c \in 0 .. 2 * MaxDistance * Resolution, e \in Eases :
          follower = [start |-> c, current |-> c,
                      target |-> MaxDistance * Resolution, ease |-> e, frames |-> 0]

\* One frame with the target unchanged.
EaseFrame ==
    /\ follower.frames < MaxFrames
    /\ follower' = [follower EXCEPT
                      !.current = Lerp(@, follower.target, follower.ease),
                      !.frames = @ + 1]
    /\ UNCHANGED <<pacer, dimmer, controlMode, keyboardView, pinned, readingPin,
                   keyboardPausedByMouse, line>>
    /\ UNCHANGED session

NextEase == EaseFrame

SpecEase == InitEase /\ [][NextEase]_vars

\* ------------------------------------------------- getVisualLineRect
\* The block is given by the client rectangles of its text nodes in document
\* order, in px.  accepted is the verdict of the TreeWalker filter on the
\* node the rectangle belongs to: not empty, and not inside an interactive
\* element.
MaxRects == 2
ReferenceYs == {20}
ReferenceHeights == {10, 20}
CandidateTops == {7, 8, 20, 32, 33}
CandidateLefts == {0, 10}
TextRect(top, left, width, height, accepted) ==
    [top |-> top, left |-> left, width |-> width, height |-> height,
     accepted |-> accepted]
Candidates ==
    {TextRect(t, l, 20, 20, TRUE) : t \in CandidateTops, l \in CandidateLefts}
      \cup {TextRect(20, 0, 0, 20, TRUE), TextRect(20, 0, 20, 0, TRUE),
            TextRect(20, 0, 40, 20, FALSE)}
RECURSIVE SeqsUpTo(_, _)
SeqsUpTo(S, n) ==
    IF n = 0 THEN {<<>>}
    ELSE LET shorter == SeqsUpTo(S, n - 1)
         IN shorter \cup {Append(q, x) : q \in shorter, x \in S}
\* block.getBoundingClientRect() and the block's computed padding
BlockBox == [left |-> 0, right |-> 60, paddingLeft |-> 4, paddingRight |-> 6]

\* Math.abs(rectMidY - refMidY) < yTolerance
OnSameLineStrict(rect, referenceY, referenceHeight) ==
    5 * Abs((2 * rect.top + rect.height) - (2 * referenceY + referenceHeight))
       < 6 * referenceHeight

\* Math.abs(rectMidY - refMidY) <= yTolerance, with yTolerance =
\* referenceHeight * 0.6 and both sides multiplied by 10
OnSameLine(rect, referenceY, referenceHeight) ==
    5 * Abs((2 * rect.top + rect.height) - (2 * referenceY + referenceHeight))
       <= 6 * referenceHeight

\* The loop over the walker's nodes and their client rectangles.
CollectLineRects(rects, referenceY, referenceHeight) ==
    SelectSeq(rects, LAMBDA rect :
        /\ rect.accepted
        /\ ~(rect.width = 0 \/ rect.height = 0)
        /\ OnSameLine(rect, referenceY, referenceHeight))

\* The loop that combines lineRects into a bounding box.
RECURSIVE Combine(_, _)
Combine(lineRects, box) ==
    IF lineRects = <<>> THEN box
    ELSE LET rect == Head(lineRects)
         IN Combine(Tail(lineRects),
                    [minLeft   |-> Min(box.minLeft, rect.left),
                     maxRight  |-> Max(box.maxRight, rect.left + rect.width),
                     minTop    |-> Min(box.minTop, rect.top),
                     maxBottom |-> Max(box.maxBottom, rect.top + rect.height)])

\* getVisualLineRect with one px of padding around the box.
GetVisualLineRectPadded(rects, referenceY, referenceHeight, isPreformatted) ==
    LET lineRects == CollectLineRects(rects, referenceY, referenceHeight)
    IN IF Len(lineRects) = 0 THEN NullRect
       ELSE LET first == Head(lineRects)
                box == Combine(Tail(lineRects),
                         [minLeft |-> first.left, maxRight |-> first.left + first.width,
                          minTop |-> first.top, maxBottom |-> first.top + first.height])
            IN [null |-> FALSE, top |-> box.minTop - 1, left |-> box.minLeft - 1,
                width |-> box.maxRight - box.minLeft + 2,
                height |-> box.maxBottom - box.minTop + 2]

\* getVisualLineRect that extends a preformatted line to the block's border box.
GetVisualLineRectBorderBox(rects, referenceY, referenceHeight, isPreformatted) ==
    LET lineRects == CollectLineRects(rects, referenceY, referenceHeight)
    IN IF Len(lineRects) = 0 THEN NullRect
       ELSE LET first == Head(lineRects)
                box == Combine(Tail(lineRects),
                         [minLeft |-> first.left, maxRight |-> first.left + first.width,
                          minTop |-> first.top, maxBottom |-> first.top + first.height])
                minLeft == IF isPreformatted THEN BlockBox.left
                           ELSE box.minLeft
                maxRight == IF isPreformatted THEN BlockBox.right
                            ELSE box.maxRight
            IN [null |-> FALSE, top |-> box.minTop, left |-> minLeft,
                width |-> maxRight - minLeft, height |-> box.maxBottom - box.minTop]

\* getVisualLineRect(block, referenceY, referenceHeight, isPreformatted)
GetVisualLineRect(rects, referenceY, referenceHeight, isPreformatted) ==
    LET lineRects == CollectLineRects(rects, referenceY, referenceHeight)
    IN IF Len(lineRects) = 0 THEN NullRect
       ELSE LET first == Head(lineRects)
                box == Combine(Tail(lineRects),
                         [minLeft |-> first.left, maxRight |-> first.left + first.width,
                          minTop |-> first.top, maxBottom |-> first.top + first.height])
                minLeft == IF isPreformatted THEN BlockBox.left + BlockBox.paddingLeft
                           ELSE box.minLeft
                maxRight == IF isPreformatted THEN BlockBox.right - BlockBox.paddingRight
                            ELSE box.maxRight
            IN [null |-> FALSE, top |-> box.minTop, left |-> minLeft,
                width |-> maxRight - minLeft, height |-> box.maxBottom - box.minTop]

InitMerge ==
    /\ Loaded
    /\ follower = FollowerIdle
    /\ line = LineIdle

\* One call from detectTextLineAtPoint, which passes the caret rectangle's
\* top and height as the reference.
CallGetVisualLineRect(rects, referenceY, referenceHeight, isPreformatted) ==
    /\ ~line.called
    /\ line' = [called |-> TRUE, rects |-> rects, referenceY |-> referenceY,
                referenceHeight |-> referenceHeight,
                isPreformatted |-> isPreformatted,
                lineRects |-> CollectLineRects(rects, referenceY, referenceHeight),
                result |-> GetVisualLineRect(rects, referenceY, referenceHeight,
                                             isPreformatted)]
    /\ UNCHANGED <<pacer, dimmer, controlMode, keyboardView, pinned, readingPin,
                   keyboardPausedByMouse, follower>>
    /\ UNCHANGED session

NextMerge ==
    \E rects \in SeqsUpTo(Candidates, MaxRects), y \in ReferenceYs,
       h \in ReferenceHeights, pre \in BOOLEAN :
       CallGetVisualLineRect(rects, y, h, pre)

SpecMerge == InitMerge /\ [][NextMerge]_vars

\* ------------------------------------------------------- the document
\* An element is given by what the code reads of it: tagName, whether onclick
\* is set, the role attribute, tabIndex, isContentEditable, and which of the
\* four class keywords className.toLowerCase() includes.
Element(tagName, onclick, role, tabIndex, isContentEditable, classes) ==
    [tagName |-> tagName, onclick |-> onclick, role |-> role,
     tabIndex |-> tabIndex, isContentEditable |-> isContentEditable,
     classes |-> classes]
Plain(tagName) == Element(tagName, FALSE, "", -1, FALSE, {})
\* a null element, as parentElement of a detached node or elementFromPoint
\* outside the document
NoElement == [tagName |-> "null"]
Body == Plain("BODY")

blockTags ==
    {"P", "DIV", "LI", "H1", "H2", "H3", "H4", "H5", "H6", "PRE", "BLOCKQUOTE",
     "TD", "TH", "ARTICLE", "SECTION", "HEADER", "FOOTER", "ASIDE", "NAV",
     "MAIN", "DD", "DT", "FIGCAPTION", "FIGURE", "ADDRESS"}
interactiveTags == {"A", "BUTTON", "INPUT", "SELECT", "TEXTAREA", "LABEL"}
preformattedTags == {"PRE", "CODE"}
preformattedClasses == {"terminal", "console", "code", "highlight"}

\* A node: a text node with its textContent, or an element (self).  ancestors
\* are the parentElement links, nearest first, up to and excluding
\* document.body; attached tells whether they end at document.body or at null.
TextNode(textContent, ancestors, attached) ==
    [nodeType |-> "text", textContent |-> textContent, self |-> NoElement,
     ancestors |-> ancestors, attached |-> attached]
ElementNode(self, ancestors, attached) ==
    [nodeType |-> "element", textContent |-> "", self |-> self,
     ancestors |-> ancestors, attached |-> attached]
ParentElement(node) ==
    IF Len(node.ancestors) > 0 THEN node.ancestors[1]
    ELSE IF node.attached THEN Body ELSE NoElement

\* !node.textContent || node.textContent.trim().length === 0
IsBlank(textContent) == textContent \in {"", " ", " \n "}

\* Pacer.isInteractiveElement(element)
IsInteractiveElement(element) ==
    IF element = NoElement THEN FALSE
    ELSE IF element.tagName \in interactiveTags THEN TRUE
    ELSE IF element.onclick \/ element.role = "button" THEN TRUE
    ELSE IF element.tabIndex >= 0 /\ element.tagName # "DIV"
              /\ element.tagName # "SPAN" THEN TRUE
    ELSE FALSE

\* Pacer.isOverInteractiveElement(x, y): hit is the element
\* document.elementFromPoint returns, as an element node, or NoElement.
IsOverInteractiveElement(hit) ==
    IF hit = NoElement THEN FALSE
    ELSE LET chain == <<hit.self>> \o hit.ancestors
         IN IF hit.self = Body THEN FALSE
            ELSE \E i \in 1 .. Len(chain) : IsInteractiveElement(chain[i])

\* The while loop of getBlockAncestor from the i-th element of chain on.
\* steps counts the parentElement links followed.
RECURSIVE BlockWalk(_, _)
BlockWalk(chain, i) ==
    IF i > Len(chain)
    THEN [isBody |-> TRUE, element |-> Body, index |-> i, steps |-> i - 1]
    ELSE IF chain[i].tagName \in blockTags
         THEN [isBody |-> FALSE, element |-> chain[i], index |-> i,
               steps |-> i - 1]
         ELSE BlockWalk(chain, i + 1)

\* The elements the loop of getBlockAncestor visits: from the node itself,
\* or a text node's parent, up to and excluding document.body.
StartChain(node) ==
    IF node.nodeType = "text" THEN node.ancestors
    ELSE IF node.self = Body THEN <<>>
    ELSE <<node.self>> \o node.ancestors

\* The loop of getBlockAncestor that never looks at the node's own tag.
GetBlockAncestorAbove(node) ==
    LET chain == StartChain(node)
    IN BlockWalk(chain, IF Len(chain) > 0 THEN 2 ELSE 1)

\* Pacer.getBlockAncestor(node)
GetBlockAncestor(node) == BlockWalk(StartChain(node), 1)

\* Dimmer.getBlockAncestor(node): the same statements over the dimmer's own
\* blockTags, which lists the same tags.
DimmerGetBlockAncestor(node) == BlockWalk(StartChain(node), 1)

\* Pacer.isPreformattedBlock(element), for the element a block walk found
IsPreformattedBlock(chain, block) ==
    IF block.isBody THEN FALSE
    ELSE \E j \in block.index .. Len(chain) :
            \/ chain[j].tagName \in preformattedTags
            \/ chain[j].classes \cap preformattedClasses # {}

\* ---------------------------------------------- detectTextLineAtPoint
\* A text node under the block: its textContent, the elements between it and
\* the block (parent first), and its client rectangle.
ContentNode(textContent, inside, rect) ==
    [textContent |-> textContent, inside |-> inside, rect |-> rect]

\* acceptNode of the TreeWalker in getVisualLineRect
AcceptNode(textContent, parentElement) ==
    IF IsBlank(textContent) THEN FALSE
    ELSE IF IsInteractiveElement(parentElement) THEN FALSE
    ELSE TRUE

\* The client rectangles of the text nodes the walker visits under block,
\* each with the walker's verdict on its node.
WalkerRects(block, content) ==
    [i \in 1 .. Len(content) |->
       LET c == content[i]
           parentElement == IF Len(c.inside) > 0 THEN c.inside[1] ELSE block.element
       IN TextRect(c.rect.top, c.rect.left, c.rect.width, c.rect.height,
                   AcceptNode(c.textContent, parentElement))]

\* The text nodes under the block of the node the caret is in: that node,
\* with the line box the caret rectangle lies in, and the others.
BlockContent(node, block, caretRect, ownWidth, others) ==
    <<ContentNode(node.textContent,
                  SubSeq(node.ancestors, 1, block.index - 1),
                  [top |-> caretRect.top, left |-> 0, width |-> ownWidth,
                   height |-> caretRect.height])>> \o others

NoRange == [startContainer |-> NoElement]
editableTags == {"INPUT", "TEXTAREA", "SCRIPT", "STYLE"}

\* What detectTextLineAtPoint returns before it reaches getVisualLineRect.
Undetected(p, stage) ==
    [self |-> p, result |-> NullRect, stage |-> stage, rects |-> <<>>,
     lineRects |-> <<>>, content |-> <<>>, isPreformatted |-> FALSE,
     block |-> BlockWalk(<<>>, 1)]

\* detectTextLineAtPoint without the test of the parent for editable content.
DetectTextLineAtPointEditable(p, hit, range, caretRect, ownWidth, others) ==
    IF IsOverInteractiveElement(hit) THEN Undetected(p, "interactive")
    ELSE IF range = NoRange THEN Undetected(p, "norange")
    ELSE LET node == range.startContainer
             parent == ParentElement(node)
         IN IF node.nodeType # "text" THEN Undetected(p, "nottext")
            ELSE IF IsBlank(node.textContent) THEN Undetected(p, "blank")
            ELSE IF caretRect.null \/ caretRect.height = 0
                 THEN Undetected(p, "nocaret")
            ELSE LET block == GetBlockAncestor(node)
                     isPreformatted == IsPreformattedBlock(node.ancestors, block)
                     content == BlockContent(node, block, caretRect, ownWidth, others)
                     rects == WalkerRects(block, content)
                 IN [self |-> p,
                     result |-> GetVisualLineRect(rects, caretRect.top,
                                                  caretRect.height, isPreformatted),
                     stage |-> "merged", rects |-> rects,
                     lineRects |-> CollectLineRects(rects, caretRect.top,
                                                    caretRect.height),
                     content |-> content, isPreformatted |-> isPreformatted,
                     block |-> block]

\* Pacer.detectTextLineAtPoint(x, y).  hit is what elementFromPoint gives,
\* range what caretRangeFromPoint (or caretPositionFromPoint) gives, caretRect
\* what getCaretRect returns (NullRect when createRange throws).  self is the
\* pacer after the call.
DetectTextLineAtPoint(p, hit, range, caretRect, ownWidth, others) ==
    IF IsOverInteractiveElement(hit) THEN Undetected(p, "interactive")
    ELSE IF range = NoRange THEN Undetected(p, "norange")
    ELSE LET node == range.startContainer
             parent == ParentElement(node)
         IN IF node.nodeType # "text" THEN Undetected(p, "nottext")
            ELSE IF IsBlank(node.textContent) THEN Undetected(p, "blank")
            ELSE IF parent # NoElement
                      /\ (parent.isContentEditable \/ parent.tagName \in editableTags)
                 THEN Undetected(p, "editable")
            ELSE IF caretRect.null \/ caretRect.height = 0
                 THEN Undetected(p, "nocaret")
            ELSE LET block == GetBlockAncestor(node)
                     isPreformatted == IsPreformattedBlock(node.ancestors, block)
                     content == BlockContent(node, block, caretRect, ownWidth, others)
                     rects == WalkerRects(block, content)
                 IN [self |-> p,
                     result |-> GetVisualLineRect(rects, caretRect.top,
                                                  caretRect.height, isPreformatted),
                     stage |-> "merged", rects |-> rects,
                     lineRects |-> CollectLineRects(rects, caretRect.top,
                                                    caretRect.height),
                     content |-> content, isPreformatted |-> isPreformatted,
                     block |-> block]

\* ---------------------------------------------- buildVisibleLineCache
ScanInnerHeight == 100       \* window.innerHeight during a scan, px
scanBuffer == 80
scanSlack == 4
scanMinWidth == 20
minTolerance == 2

\* isInteractiveElement(element) of main.js
MainIsInteractiveElement(element) ==
    IF element = NoElement THEN FALSE
    ELSE IF element.tagName \in {"A", "BUTTON", "INPUT", "SELECT", "TEXTAREA", "LABEL"}
         THEN TRUE
    ELSE IF element.onclick \/ element.role = "button" THEN TRUE
    ELSE IF element.tabIndex >= 0 /\ element.tagName # "DIV"
              /\ element.tagName # "SPAN" THEN TRUE
    ELSE FALSE

\* acceptNode of the TreeWalker in buildVisibleLineCache
ScanAcceptNode(textContent, parent) ==
    IF IsBlank(textContent) THEN FALSE
    ELSE IF parent = NoElement THEN FALSE
    ELSE IF MainIsInteractiveElement(parent) THEN FALSE
    ELSE IF parent.isContentEditable THEN FALSE
    ELSE IF parent.tagName \in {"SCRIPT", "STYLE", "INPUT", "TEXTAREA"} THEN FALSE
    ELSE TRUE

\* The bounds of the scan, in tenths of a count: zoneTop and zoneBottom are
\* 0.1 and 0.9 of the viewport height.
ScanBounds(pinnedRect) ==
    LET viewTop == Max(Px(ScanInnerHeight), 10 * pinnedRect.top)
        viewBottom == Min(9 * Px(ScanInnerHeight), 10 * pinnedRect.bottom)
    IN [viewTop |-> viewTop, viewBottom |-> viewBottom,
        scanTop |-> Max(10 * pinnedRect.top, viewTop - 10 * Px(scanBuffer)),
        scanBottom |-> Min(10 * pinnedRect.bottom, viewBottom + 10 * Px(scanBuffer))]

\* The tests on one client rectangle in the collecting loop.
ScanKeeps(lineRect, b) ==
    IF lineRect.width < Px(scanMinWidth) \/ lineRect.height = 0 THEN FALSE
    ELSE IF 10 * (lineRect.top + lineRect.height) < b.scanTop
              \/ 10 * lineRect.top > b.scanBottom THEN FALSE
    ELSE IF 10 * lineRect.top < b.viewTop - 10 * Px(scanSlack)
              \/ 10 * (lineRect.top + lineRect.height) > b.viewBottom + 10 * Px(scanSlack)
         THEN FALSE
    ELSE TRUE

\* The collecting loop: the rectangles of the accepted nodes that pass the
\* tests, in document order.
RECURSIVE ScanCollect(_, _, _)
ScanCollect(pinnedElement, content, b) ==
    IF content = <<>> THEN <<>>
    ELSE LET c == Head(content)
             parent == IF Len(c.inside) > 0 THEN c.inside[1] ELSE pinnedElement
             rest == ScanCollect(pinnedElement, Tail(content), b)
         IN IF ScanAcceptNode(c.textContent, parent) /\ ScanKeeps(c.rect, b)
            THEN <<c.rect>> \o rest
            ELSE rest

\* The comparator by left alone.
BeforeByLeft(a, b) == a.left < b.left

\* (a, b) => a.top - b.top || a.left - b.left is negative
Before(a, b) == a.top < b.top \/ (a.top = b.top /\ a.left < b.left)

\* Array.prototype.sort with that comparator: a stable sort.
RECURSIVE SortInsert(_, _)
SortInsert(sorted, x) ==
    IF sorted = <<>> THEN <<x>>
    ELSE IF Before(x, Head(sorted)) THEN <<x>> \o sorted
    ELSE <<Head(sorted)>> \o SortInsert(Tail(sorted), x)
RECURSIVE SortRects(_)
SortRects(rects) ==
    IF rects = <<>> THEN <<>>
    ELSE SortInsert(SortRects(SubSeq(rects, 1, Len(rects) - 1)), rects[Len(rects)])

\* Math.abs(candidateMid - lineMid) <= Math.max(2, lineRect.height * 0.6),
\* both sides multiplied by 10
WithinTolerance(candidate, lineRect) ==
    5 * Abs((candidate.top + candidate.bottom) - (2 * lineRect.top + lineRect.height))
       <= Max(10 * Px(minTolerance), 6 * lineRect.height)

\* The inner loop taken from the newest group down: the index of the last
\* group within tolerance, 0 when there is none.
FindGroupNewest(groups, lineRect) ==
    LET Q == {i \in 1 .. Len(groups) : WithinTolerance(groups[i], lineRect)}
    IN IF Q = {} THEN 0 ELSE CHOOSE i \in Q : \A j \in Q : j <= i

\* The inner loop over groups, which breaks at the first group within
\* tolerance: its index, 0 when there is none.
RECURSIVE FindGroupFrom(_, _, _)
FindGroupFrom(groups, lineRect, i) ==
    IF i > Len(groups) THEN 0
    ELSE IF WithinTolerance(groups[i], lineRect) THEN i
    ELSE FindGroupFrom(groups, lineRect, i + 1)
FindGroup(groups, lineRect) == FindGroupFrom(groups, lineRect, 1)

\* One iteration of the grouping loop.
GroupStep(groups, lineRect) ==
    LET g == FindGroup(groups, lineRect)
    IN IF g = 0
       THEN Append(groups, [top |-> lineRect.top,
                            bottom |-> lineRect.top + lineRect.height,
                            left |-> lineRect.left,
                            right |-> lineRect.left + lineRect.width])
       ELSE [groups EXCEPT ![g] =
               [top |-> Min(@.top, lineRect.top),
                bottom |-> Max(@.bottom, lineRect.top + lineRect.height),
                left |-> Min(@.left, lineRect.left),
                right |-> Max(@.right, lineRect.left + lineRect.width)]]

\* The groups after each iteration of the loop over sorted.
RECURSIVE GroupTrail(_, _)
GroupTrail(sorted, groups) ==
    IF sorted = <<>> THEN <<>>
    ELSE LET next == GroupStep(groups, Head(sorted))
         IN <<next>> \o GroupTrail(Tail(sorted), next)
GroupAll(sorted) ==
    LET trail == GroupTrail(sorted, <<>>)
    IN IF trail = <<>> THEN <<>> ELSE trail[Len(trail)]

\* groups.map(...).filter(...).sort(...)
MergeGroups(groups) ==
    LET rects == [i \in 1 .. Len(groups) |->
                    [top |-> groups[i].top, left |-> groups[i].left,
                     width |-> groups[i].right - groups[i].left,
                     height |-> groups[i].bottom - groups[i].top]]
    IN SortRects(SelectSeq(rects, LAMBDA r :
                   r.width >= Px(scanMinWidth) /\ r.height > 0))

\* The lines of sorting, grouping and merging applied to a list of rectangles.
GroupLines(lineRects) == MergeGroups(GroupAll(SortRects(lineRects)))

PinnedElement == Plain("ARTICLE")

\* buildVisibleLineCache(): isPinned tells whether pinnedElement is set,
\* pinnedRect is its bounding rectangle, content its text nodes, before
\* keyboardCursor.lineRects as it was.
BuildVisibleLineCacheOf(isPinned, pinnedRect, content, before) ==
    IF ~isPinned THEN [stage |-> "unpinned", lineRects |-> before]
    ELSE LET b == ScanBounds(pinnedRect)
         IN IF b.viewBottom <= b.viewTop
            THEN [stage |-> "offscreen", lineRects |-> <<>>]
            ELSE [stage |-> "scanned",
                  lineRects |-> GroupLines(ScanCollect(PinnedElement, content, b))]

\* ------------------------------------- line detection on a document
\* What the page can hold under the pointer and in the pinned element.
MaxOthers == 1
MaxScanNodes == 3
Link == Element("A", FALSE, "", 0, FALSE, {})
Clickable == Element("SPAN", TRUE, "", -1, FALSE, {})
RoleButton == Element("SPAN", FALSE, "button", -1, FALSE, {})
FocusableDiv == Element("DIV", FALSE, "", 0, FALSE, {})
FocusableItalic == Element("I", FALSE, "", 0, FALSE, {})
EditableDiv == Element("DIV", FALSE, "", -1, TRUE, {})
CodeDiv == Element("DIV", FALSE, "", -1, FALSE, {"code"})
AncestorChains ==
    {<<Plain("P")>>, <<Plain("SPAN"), Plain("P")>>,
     <<Plain("B"), Link, Plain("P")>>, <<Link, Plain("P")>>,
     <<Plain("SPAN")>>, <<>>, <<Plain("CODE"), Plain("PRE")>>,
     <<Plain("P"), CodeDiv>>, <<EditableDiv>>,
     <<Plain("TEXTAREA"), Plain("DIV")>>, <<Clickable, Plain("P")>>,
     <<RoleButton, Plain("P")>>, <<FocusableDiv>>, <<Plain("SCRIPT")>>,
     <<FocusableItalic, Plain("LI")>>}
CaretNodes ==
    {TextNode("words", a, TRUE) : a \in AncestorChains}
      \cup {TextNode(" \n ", <<Plain("P")>>, TRUE),
            TextNode("words", <<>>, FALSE),
            TextNode("words", <<Plain("SPAN")>>, FALSE)}
RangeKinds == {"none", "element", "text"}
CaretRects == {NullRect, Rect(20, 0, 1, 0), Rect(20, 0, 1, 20)}
OwnWidths == {Px(10), Px(30)}
OtherRect == [top |-> Px(20), left |-> Px(30), width |-> Px(20), height |-> Px(20)]
OtherContent ==
    {ContentNode("words", inside, OtherRect) :
       inside \in {<<>>, <<Link>>, <<Plain("B"), Link>>, <<FocusableDiv>>}}
      \cup {ContentNode("words", <<>>,
                        [top |-> Px(20), left |-> Px(12), width |-> Px(5),
                         height |-> Px(20)])}

\* document.elementFromPoint gives the parent of the text node, or null.
HitOf(node, hitNull) ==
    IF hitNull \/ ParentElement(node) = NoElement THEN NoElement
    ELSE ElementNode(ParentElement(node),
                     IF Len(node.ancestors) > 0 THEN Tail(node.ancestors) ELSE <<>>,
                     node.attached)

\* caretRangeFromPoint gives no range, a range in an element, or a range in
\* the text node.
RangeOf(node, kind) ==
    IF kind = "none" THEN NoRange
    ELSE IF kind = "element" /\ ParentElement(node) # NoElement
         THEN [startContainer |-> HitOf(node, FALSE)]
    ELSE [startContainer |-> node]

ScanTops == {10, 13}
ScanHeights == {4, 6, 12}
ScanLefts == {0, 30}
ScanRect(top, left, width, height) ==
    [top |-> Px(top), left |-> Px(left), width |-> Px(width), height |-> Px(height)]
ScanContent ==
    {ContentNode("words", <<>>, ScanRect(t, l, 20, h)) :
       t \in ScanTops, l \in ScanLefts, h \in ScanHeights}
      \cup {ContentNode("words", <<Link>>, ScanRect(10, 60, 20, 4)),
            ContentNode("words", <<Plain("B"), Link>>, ScanRect(10, 60, 20, 4)),
            ContentNode("words", <<FocusableDiv>>, ScanRect(10, 60, 20, 4)),
            ContentNode(" \n ", <<>>, ScanRect(10, 60, 20, 4)),
            ContentNode("words", <<>>, ScanRect(10, 60, 10, 4)),
            ContentNode("words", <<>>, ScanRect(0, 0, 20, 4))}
PinnedRects ==
    {[top |-> Px(8), bottom |-> Px(60)], [top |-> Px(95), bottom |-> Px(99)]}

\* The smart pacer enabled in mouse mode, or keyboard mode with an element
\* pinned and the pacer enabled on it.
InitLines ==
    /\ \E pin \in BOOLEAN :
         /\ pinned = pin
         /\ controlMode = IF pin THEN "keyboard" ELSE "mouse"
         /\ pacer = PacerEnable(PacerSetControlMode(PacerNew,
                                   IF pin THEN "keyboard" ELSE "mouse"))
         /\ dimmer = DimmerSetControlMode(DimmerNew,
                                   IF pin THEN "keyboard" ELSE "mouse")
    /\ keyboardView = "narrow"
    /\ readingPin = "none"
    /\ keyboardPausedByMouse = FALSE
    /\ follower = FollowerIdle
    /\ line = LineIdle
    /\ SessionLoaded

\* A mousemove event on the smart pacer, with the detection it runs.
DetectMove(clientY, throttled, node, hitNull, kind, caretRect, ownWidth, others) ==
    /\ controlMode = "mouse" /\ pacer.listeners /\ ~line.called
    /\ LET d == DetectTextLineAtPoint(Fresh(pacer), HitOf(node, hitNull),
                                      RangeOf(node, kind), caretRect, ownWidth, others)
       IN /\ pacer' = PacerHandleMouseMove(d.self, clientY, throttled, d.result)
          /\ line' = IF throttled THEN line
                     ELSE [called |-> TRUE, op |-> "detect", node |-> node,
                           hit |-> HitOf(node, hitNull), range |-> RangeOf(node, kind),
                           caretRect |-> caretRect, before |-> Fresh(pacer),
                           self |-> d.self, stage |-> d.stage, block |-> d.block,
                           content |-> d.content, rects |-> d.rects,
                           referenceY |-> caretRect.top,
                           referenceHeight |-> caretRect.height,
                           isPreformatted |-> d.isPreformatted,
                           lineRects |-> d.lineRects, result |-> d.result]
    /\ UNCHANGED <<dimmer, controlMode, keyboardView, pinned, readingPin,
                   keyboardPausedByMouse, follower>>
    /\ UNCHANGED session

\* A call of buildVisibleLineCache() from moveKeyboardLine or pageTurn.
BuildVisibleLineCache(pinnedRect, content) ==
    /\ controlMode = "keyboard" /\ ~line.called
    /\ LET r == BuildVisibleLineCacheOf(pinned, pinnedRect, content, <<>>)
           b == ScanBounds(pinnedRect)
           collected == IF r.stage = "scanned"
                        THEN ScanCollect(PinnedElement, content, b) ELSE <<>>
       IN line' = [called |-> TRUE, op |-> "scan", pinnedRect |-> pinnedRect,
                   content |-> content, stage |-> r.stage,
                   collected |-> collected, sorted |-> SortRects(collected),
                   trail |-> GroupTrail(SortRects(collected), <<>>),
                   lineRects |-> r.lineRects]
    /\ UNCHANGED <<pacer, dimmer, controlMode, keyboardView, pinned, readingPin,
                   keyboardPausedByMouse, follower>>
    /\ UNCHANGED session

\* The nodes getBlockAncestor is called with: the text node of the caret
\* (pacer) and the element under the pointer (dimmer).
BlockQueryNodes ==
    CaretNodes \cup ({HitOf(n, FALSE) : n \in CaretNodes} \ {NoElement})

\* A call of getBlockAncestor(node) on the pacer and on the dimmer.
ResolveBlock(node) ==
    /\ ~line.called
    /\ line' = [called |-> TRUE, op |-> "block", node |-> node,
                block |-> GetBlockAncestor(node),
                dimmerBlock |-> DimmerGetBlockAncestor(node)]
    /\ UNCHANGED <<pacer, dimmer, controlMode, keyboardView, pinned, readingPin,
                   keyboardPausedByMouse, follower>>
    /\ UNCHANGED session

NextLines ==
    \/ \E y \in MouseYs, th \in BOOLEAN, node \in CaretNodes, hitNull \in BOOLEAN,
          kind \in RangeKinds, c \in CaretRects, w \in OwnWidths,
          others \in SeqsUpTo(OtherContent, MaxOthers) :
          DetectMove(y, th, node, hitNull, kind, c, w, others)
    \/ \E r \in PinnedRects, content \in SeqsUpTo(ScanContent, MaxScanNodes) :
          BuildVisibleLineCache(r, content)
    \/ \E node \in BlockQueryNodes : ResolveBlock(node)

SpecLines == InitLines /\ [][NextLines]_vars

\* ------------------------------------------- the content script's shortcuts
maxWindowHeight == 200
minWindowHeight == 20
windowStep == 10

\* The state a keybinding handler or a timer callback passes along.
Page == [pacer |-> Fresh(pacer), dimmer |-> Fresh(dimmer), pinned |-> pinned,
         readingPin |-> readingPin, paused |-> keyboardPausedByMouse,
         cursorHidden |-> cursorHidden, rsvp |-> rsvpPlayer,
         keys |-> keybindingManager, timers |-> timers, settings |-> settings,
         storage |-> storage]

PageBecomes(st) ==
    /\ Becomes(st)
    /\ cursorHidden' = st.cursorHidden
    /\ rsvpPlayer' = st.rsvp
    /\ keybindingManager' = st.keys
    /\ timers' = st.timers
    /\ settings' = st.settings
    /\ storage' = st.storage

\* chrome.storage.local.set({ settings }): the store takes the value, and a
\* change event for a value that differs is queued for the content script.
StorageSet(st, value) ==
    [st EXCEPT !.storage.store = value,
               !.storage.events = IF value = st.storage.store THEN @
                                  ELSE Append(@, value)]

\* saveSetting(path, value), the value already assigned by the handler
SaveSetting(st) == StorageSet(st, st.settings)

\* settings.dimmer with the window height of the settings object
DimmerSettingsOf(st) ==
    [st.dimmer.settings EXCEPT !.windowHeight = st.settings.windowHeight]

\* keybinding increaseWindowHeight
IncreaseWindowHeight(st) ==
    IF st.dimmer.enabled /\ controlMode # "keyboard"
    THEN LET a == [st EXCEPT !.settings.windowHeight =
                                Min(Px(maxWindowHeight), @ + Px(windowStep))]
         IN SaveSetting([a EXCEPT !.dimmer =
                                    DimmerUpdateSettings(@, DimmerSettingsOf(a))])
    ELSE st

\* keybinding decreaseWindowHeight
DecreaseWindowHeight(st) ==
    IF st.dimmer.enabled /\ controlMode # "keyboard"
    THEN LET a == [st EXCEPT !.settings.windowHeight =
                                Max(Px(minWindowHeight), @ - Px(windowStep))]
         IN SaveSetting([a EXCEPT !.dimmer =
                                    DimmerUpdateSettings(@, DimmerSettingsOf(a))])
    ELSE st

\* keybinding toggleDimmer
ToggleDimmerHandler(st) ==
    IF controlMode = "keyboard" THEN StartKeyboardModeToggle(st, "dimmer")
    ELSE LET a == [st EXCEPT !.dimmer = DimmerToggle(@)]
         IN IF ~a.dimmer.enabled THEN SetCursorHidden(a, FALSE) ELSE a

\* The handler turning the two overlays round one by one.
ToggleBothEach(st) ==
    IF controlMode = "keyboard" THEN StartKeyboardModeToggle(st, "both")
    ELSE [st EXCEPT !.pacer = PacerToggle(@), !.dimmer = DimmerToggle(@)]

\* keybinding toggleBoth
ToggleBoth(st) ==
    IF controlMode = "keyboard" THEN StartKeyboardModeToggle(st, "both")
    ELSE IF ~(st.pacer.enabled \/ st.dimmer.enabled)
         THEN [st EXCEPT !.pacer = PacerEnable(@), !.dimmer = DimmerEnable(@)]
         ELSE SetCursorHidden([st EXCEPT !.pacer = PacerDisable(@),
                                         !.dimmer = DimmerDisable(@)], FALSE)

\* The handler without its call of rsvpPlayer.exit().
DisableAllOverlays(st) ==
    LET a == [st EXCEPT !.pacer = PacerDisable(@), !.dimmer = DimmerDisable(@)]
    IN [CancelReadingPin(SetCursorHidden(a, FALSE)) EXCEPT !.paused = FALSE]

\* keybinding disableAll
DisableAll(st) ==
    LET a == [st EXCEPT !.pacer = PacerDisable(@), !.dimmer = DimmerDisable(@)]
        b == IF RsvpIsActive(a.rsvp) THEN RsvpExit(a) ELSE a
    IN [CancelReadingPin(SetCursorHidden(b, FALSE)) EXCEPT !.paused = FALSE]

\* settings.rsvp
RsvpSettingsOf(st) == [wpm |-> st.settings.wpm, chunkSize |-> st.settings.chunkSize]

\* window.getSelection().toString().trim()
RECURSIVE TrimStart(_)
TrimStart(text) ==
    IF text # <<>> /\ Head(text) = Space THEN TrimStart(Tail(text)) ELSE text
RECURSIVE TrimEnd(_)
TrimEnd(text) ==
    IF text # <<>> /\ text[Len(text)] = Space
    THEN TrimEnd(SubSeq(text, 1, Len(text) - 1)) ELSE text
Trim(text) == TrimEnd(TrimStart(text))

\* keybinding startRsvp; selection is window.getSelection().toString()
StartRsvp(st, selection) ==
    IF Trim(selection) # <<>>
    THEN RsvpStart(RsvpUpdateSettings(st, RsvpSettingsOf(st)), Trim(selection))
    ELSE st

\* keybinding toggleCursor
ToggleCursor(st) ==
    IF st.dimmer.enabled THEN SetCursorHidden(st, ~st.cursorHidden) ELSE st

\* keybinding reselectReadingElement
ReselectReadingElement(st) ==
    IF controlMode # "keyboard" THEN st
    ELSE IF ~st.pacer.enabled /\ ~st.dimmer.enabled THEN st
    ELSE IF st.readingPin # "none" THEN st
    ELSE StartReadingPin(st, "both")

\* The handlers registered by initKeybindings(), but for those of
\* increaseOpacity, decreaseOpacity and convertToMarkdown.
RunHandler(st, action, selection) ==
    CASE action = "togglePacer" ->
           IF controlMode = "keyboard" THEN StartKeyboardModeToggle(st, "pacer")
           ELSE [st EXCEPT !.pacer = PacerToggle(@)]
      [] action = "toggleDimmer" -> ToggleDimmerHandler(st)
      [] action = "toggleBoth" -> ToggleBoth(st)
      [] action = "disableAll" -> DisableAll(st)
      [] action = "startRsvp" -> StartRsvp(st, selection)
      [] action = "rsvpPause" ->
           IF RsvpIsActive(st.rsvp) THEN RsvpTogglePlay(st) ELSE st
      [] action = "rsvpSpeedUp" ->
           IF RsvpIsActive(st.rsvp) THEN RsvpAdjustSpeed(st, 50) ELSE st
      [] action = "rsvpSpeedDown" ->
           IF RsvpIsActive(st.rsvp) THEN RsvpAdjustSpeed(st, -50) ELSE st
      [] action = "rsvpExit" ->
           IF RsvpIsActive(st.rsvp) THEN RsvpExit(st) ELSE st
      [] action = "increaseWindowHeight" -> IncreaseWindowHeight(st)
      [] action = "decreaseWindowHeight" -> DecreaseWindowHeight(st)
      [] action = "toggleCursor" -> ToggleCursor(st)
      [] action = "reselectReadingElement" -> ReselectReadingElement(st)
      [] OTHER -> st

\* KeybindingManager.handleKeyDown up to the call of the handler: the action
\* whose handler runs, "null" if none does.
KeyDownAction(keys, event) ==
    IF ~keys.enabled THEN "null" ELSE FindMatchingAction(keys, event)

\* handleKeyDown(event) with the handler it calls
HandleKeyDown(st, event, selection) ==
    LET action == KeyDownAction(st.keys, event)
        a == [st EXCEPT !.keys.matched = action]
    IN IF action = "null" THEN a ELSE RunHandler(a, action, selection)

\* One keydown event on the document.  handleReadingPinKeydown listens in the
\* capture phase and stops an Escape while the picker is active.
KeyDown(event, selection) ==
    /\ PageBecomes(IF readingPin # "none" /\ event.key = "Escape"
                   THEN [CancelReadingPin(Page) EXCEPT !.keys.matched = "null"]
                   ELSE HandleKeyDown(Page, event, selection))
    /\ UNCHANGED <<controlMode, keyboardView, follower, line>>

\* A click on the overlay's play/pause button.
ClickPlayPause ==
    /\ RsvpIsActive(rsvpPlayer)
    /\ PageBecomes(RsvpTogglePlay(Page))
    /\ UNCHANGED <<controlMode, keyboardView, follower, line, keyEvent>>

\* A click on the overlay's Slower or Faster button.
ClickSpeed(delta) ==
    /\ RsvpIsActive(rsvpPlayer)
    /\ PageBecomes(RsvpAdjustSpeed(Page, delta))
    /\ UNCHANGED <<controlMode, keyboardView, follower, line, keyEvent>>

\* The word timer with this id fires.
WordTimer(id) ==
    /\ id \in timers.word
    /\ PageBecomes(RsvpWordTimer(Page, id))
    /\ UNCHANGED <<controlMode, keyboardView, follower, line, keyEvent>>

\* The oldest auto-close timer fires.
ExitTimer ==
    /\ timers.exit # <<>>
    /\ PageBecomes(RsvpExitTimer(Page))
    /\ UNCHANGED <<controlMode, keyboardView, follower, line, keyEvent>>

\* ------------------------------------------------------- an RSVP session
\* The selections Alt+Shift+R can find, the keys of the RSVP controls, and
\* the words per minute of the settings a session starts from.
MaxSessions == 2
MaxCompletions == 2
Texts == { <<Space>>, <<"one">>, <<Space, "one", Space, "two.">>,
           <<"one", Space, "two", Space, Space, "three">> }
Chord(code, key) == KeyEvent(code, key, TRUE, TRUE, FALSE, FALSE)
Bare(code, key) == KeyEvent(code, key, FALSE, FALSE, FALSE, FALSE)
StartKey == Chord("KeyR", "R")
DisableAllKey == Chord("KeyX", "X")
RsvpKeys == { StartKey, DisableAllKey, Bare("Space", " "),
              Bare("ArrowRight", "ArrowRight"), Bare("ArrowLeft", "ArrowLeft"),
              Bare("Escape", "Escape") }
StartWpms == {100, 1000}
ChunkSizes == {1, 2}

InitRsvp ==
    /\ pacer = PacerNew
    /\ dimmer = DimmerNew
    /\ controlMode = "mouse"
    /\ keyboardView = "narrow"
    /\ pinned = FALSE
    /\ readingPin = "none"
    /\ keyboardPausedByMouse = FALSE
    /\ follower = FollowerIdle
    /\ line = LineIdle
    /\ rsvpPlayer = RsvpNew
    /\ keybindingManager = KeybindingManagerLoaded
    /\ timers = NoTimers
    /\ cursorHidden = FALSE
    /\ \E wpm \in StartWpms, chunkSize \in ChunkSizes :
          /\ settings = [DefaultSettings EXCEPT !.wpm = wpm, !.chunkSize = chunkSize]
          /\ storage = [StorageLoaded EXCEPT
                          !.store = settings, !.popup.settings = settings]
    /\ keyEvent = KeyEventIdle

\* A keydown event during the sessions followed: the selection matters to
\* Alt+Shift+R alone.
RsvpKeyDown(event, selection) ==
    /\ event = StartKey => rsvpPlayer.session < MaxSessions
    /\ event # StartKey => selection = <<Space>>
    /\ KeyDown(event, selection)
    /\ UNCHANGED keyEvent

NextRsvp ==
    \/ \E event \in RsvpKeys, selection \in Texts : RsvpKeyDown(event, selection)
    \/ ClickPlayPause
    \/ \E delta \in {-50, 50} : ClickSpeed(delta)
    \/ \E id \in timers.word :
          /\ rsvpPlayer.completions < MaxCompletions
          /\ WordTimer(id)
    \/ ExitTimer

SpecRsvp == InitRsvp /\ [][NextRsvp]_vars

\* getEffectiveEnabled(feature): the tab state of the feature if the content
\* script holds one ("on" or "off"), the settings' value otherwise.
TabStates == {"undefined", "on", "off"}
EffectiveEnabled(tabState, enabled) ==
    IF tabState # "undefined" THEN tabState = "on" ELSE enabled

\* settings = value; applySettings(settings), for a value received from the
\* store or in a message.
ReceiveSettings(st, value, pacerTab, dimmerTab) ==
    LET a == [st EXCEPT !.settings = value]
        b == AppliedSettings(a, a.pacer.settings, DimmerSettingsOf(a),
                             value.mode, value.keyboardView,
                             EffectiveEnabled(pacerTab, value.pacerEnabled),
                             EffectiveEnabled(dimmerTab, value.dimmerEnabled))
    IN RsvpUpdateSettings(b, RsvpSettingsOf(b))

\* handleStorageChange for the oldest change event not yet delivered
HandleStorageChange(pacerTab, dimmerTab) ==
    /\ storage.events # <<>>
    /\ LET value == Head(storage.events)
       IN /\ PageBecomes(ReceiveSettings([Page EXCEPT !.storage.events = Tail(@)],
                                         value, pacerTab, dimmerTab))
          /\ controlMode' = value.mode
          /\ keyboardView' = value.keyboardView
    /\ UNCHANGED <<follower, line, keyEvent>>

\* ------------------------------------------- the window height shortcuts
\* The dimmer in mouse mode, turned on and off and resized by its shortcuts,
\* from settings whose window height is within the documented range.
MaxEvents == 1
StartHeights == {30, 60, 200}
WindowKeys == { Chord("KeyD", "D"), Chord("ArrowUp", "ArrowUp"),
                Chord("ArrowDown", "ArrowDown") }

InitWindow ==
    /\ pacer = PacerNew
    /\ controlMode = "mouse"
    /\ keyboardView = "narrow"
    /\ pinned = FALSE
    /\ readingPin = "none"
    /\ keyboardPausedByMouse = FALSE
    /\ follower = FollowerIdle
    /\ line = LineIdle
    /\ rsvpPlayer = RsvpNew
    /\ keybindingManager = KeybindingManagerLoaded
    /\ timers = NoTimers
    /\ cursorHidden = FALSE
    /\ keyEvent = KeyEventIdle
    /\ \E h \in StartHeights :
          /\ settings = [DefaultSettings EXCEPT !.windowHeight = Px(h)]
          /\ storage = [StorageLoaded EXCEPT
                          !.store = settings, !.popup.settings = settings]
          /\ dimmer = DimmerUpdateSettings(DimmerNew,
                        [DimmerNew.settings EXCEPT !.windowHeight = Px(h)])

WindowKeyDown(event) ==
    /\ Len(storage.events) <= MaxEvents
    /\ KeyDown(event, <<>>)
    /\ UNCHANGED keyEvent

NextWindow ==
    \/ \E event \in WindowKeys : WindowKeyDown(event)
    \/ \E dimmerTab \in TabStates : HandleStorageChange("undefined", dimmerTab)

SpecWindow == InitWindow /\ [][NextWindow]_vars

\* ------------------------------------------- the feature shortcuts
\* The pacer, the dimmer, the cursor, the reading-pin picker and an RSVP
\* session under the shortcuts that turn them on and off, in both control
\* modes.  keyEvent keeps Toggle Both or Disable All, with what was so before
\* it, while it is the shortcut pressed last.
MaxRuns == 1
ToggleBothKey == Chord("KeyB", "B")
ShortcutKeys == { Chord("KeyP", "P"), Chord("KeyD", "D"), ToggleBothKey,
                  DisableAllKey, StartKey, Chord("KeyC", "C"), Chord("KeyS", "S"),
                  Bare("Escape", "Escape") }
ShortcutTexts == { <<"one">> }

StateBefore ==
    [pacer |-> pacer.enabled, dimmer |-> dimmer.enabled,
     rsvp |-> RsvpIsActive(rsvpPlayer), cursorHidden |-> cursorHidden,
     readingPin |-> readingPin # "none", controlMode |-> controlMode]

InitShortcuts ==
    /\ Loaded
    /\ follower = FollowerIdle
    /\ line = LineIdle

ShortcutKeyDown(event, selection) ==
    /\ event = StartKey => rsvpPlayer.session < MaxRuns
    /\ KeyDown(event, selection)
    /\ keyEvent' = IF event \in {ToggleBothKey, DisableAllKey}
                   THEN [called |-> TRUE, event |-> event, before |-> StateBefore]
                   ELSE KeyEventIdle

\* handleMessage for SESSION_CONTROL_MODE
ShortcutControlMode(mode, view) ==
    /\ controlMode' = mode
    /\ keyboardView' = view
    /\ PageBecomes(ApplyControlMode(Page, mode, view))
    /\ UNCHANGED <<follower, line, keyEvent>>

ShortcutPinClick ==
    /\ PinClick(FALSE, "line", LineB, BlockB)
    /\ UNCHANGED <<follower, line>>
    /\ UNCHANGED session

NextShortcuts ==
    \/ \E event \in ShortcutKeys, selection \in ShortcutTexts :
          ShortcutKeyDown(event, selection)
    \/ \E m \in Modes : \E v \in ViewsOf(m) : ShortcutControlMode(m, v)
    \/ ShortcutPinClick
    \/ \E id \in timers.word :
          /\ rsvpPlayer.completions < MaxCompletions
          /\ WordTimer(id)
    \/ ExitTimer

SpecShortcuts == InitShortcuts /\ [][NextShortcuts]_vars

\* ------------------------------------------- the settings on their way
\* The popup's saveGlobalSetting(feature, enabled), one await at a time:
\* chrome.storage.local.get answers and the setting is changed in the copy,
\* chrome.storage.local.set writes the copy, and after chrome.tabs.query the
\* SETTINGS_CHANGED message with the copy is sent to the content script.
MaxSaves == 2
Features == {"pacerEnabled", "dimmerEnabled"}

PopupGet(feature, enabled) ==
    /\ storage.popup.pc = "idle"
    /\ storage.popup.saves < MaxSaves
    /\ storage' = [storage EXCEPT
                     !.popup = [pc |-> "set",
                                settings |-> [storage.store EXCEPT ![feature] = enabled],
                                saves |-> @.saves + 1]]
    /\ UNCHANGED <<pacer, dimmer, controlMode, keyboardView, pinned, readingPin,
                   keyboardPausedByMouse, follower, line, rsvpPlayer,
                   keybindingManager, timers, cursorHidden, settings, keyEvent>>

PopupSet ==
    /\ storage.popup.pc = "set"
    /\ storage' = [StorageSet([storage |-> storage], storage.popup.settings).storage
                     EXCEPT !.popup.pc = "send"]
    /\ UNCHANGED <<pacer, dimmer, controlMode, keyboardView, pinned, readingPin,
                   keyboardPausedByMouse, follower, line, rsvpPlayer,
                   keybindingManager, timers, cursorHidden, settings, keyEvent>>

PopupSend ==
    /\ storage.popup.pc = "send"
    /\ storage' = [storage EXCEPT !.popup.pc = "idle",
                                  !.messages = Append(@, storage.popup.settings)]
    /\ UNCHANGED <<pacer, dimmer, controlMode, keyboardView, pinned, readingPin,
                   keyboardPausedByMouse, follower, line, rsvpPlayer,
                   keybindingManager, timers, cursorHidden, settings, keyEvent>>

\* handleMessage for the oldest SETTINGS_CHANGED message not yet delivered
HandleMessage(pacerTab, dimmerTab) ==
    /\ storage.messages # <<>>
    /\ LET value == Head(storage.messages)
       IN /\ PageBecomes(ReceiveSettings([Page EXCEPT !.storage.messages = Tail(@)],
                                         value, pacerTab, dimmerTab))
          /\ controlMode' = value.mode
          /\ keyboardView' = value.keyboardView
    /\ UNCHANGED <<follower, line, keyEvent>>

\* The content script writes the settings with the window height shortcut,
\* while the dimmer is on.
SettingsKeys == { Chord("KeyD", "D"), Chord("ArrowUp", "ArrowUp") }

InitSettings ==
    /\ pacer = PacerNew
    /\ controlMode = "mouse"
    /\ keyboardView = "narrow"
    /\ pinned = FALSE
    /\ readingPin = "none"
    /\ keyboardPausedByMouse = FALSE
    /\ follower = FollowerIdle
    /\ line = LineIdle
    /\ rsvpPlayer = RsvpNew
    /\ keybindingManager = KeybindingManagerLoaded
    /\ timers = NoTimers
    /\ cursorHidden = FALSE
    /\ keyEvent = KeyEventIdle
    /\ settings = [DefaultSettings EXCEPT
                     !.windowHeight = Px(maxWindowHeight - windowStep)]
    /\ storage = [StorageLoaded EXCEPT
                    !.store = settings, !.popup.settings = settings]
    /\ dimmer = DimmerUpdateSettings(DimmerNew,
                  [DimmerNew.settings EXCEPT !.windowHeight = settings.windowHeight])

SettingsKeyDown(event) ==
    /\ Len(storage.events) <= MaxEvents
    /\ KeyDown(event, <<>>)
    /\ UNCHANGED keyEvent

NextSettings ==
    \/ \E feature \in Features, enabled \in BOOLEAN : PopupGet(feature, enabled)
    \/ PopupSet
    \/ PopupSend
    \/ \E event \in SettingsKeys : SettingsKeyDown(event)
    \/ HandleStorageChange("undefined", "undefined")
    \/ HandleMessage("undefined", "undefined")

SpecSettings == InitSettings /\ [][NextSettings]_vars

\* ------------------------------------------- key capture and dispatch
\* The options page captures a keydown event as the new binding of
\* togglePacer, the content script's manager is handed the saved bindings,
\* and keydown events reach the manager, enabled or disabled.  keyEvent is
\* the options page's modal: the event captured last, capturedBinding, and
\* whether the keydown the manager saw last was that event.
\* "pi-sign" stands for the character Option+Shift+P types on a Mac.
KeyStrokes ==
    { [code |-> "KeyP", key |-> "pi-sign"], [code |-> "Escape", key |-> "Escape"],
      [code |-> "Digit1", key |-> "!"], [code |-> "Enter", key |-> "Enter"],
      [code |-> "", key |-> "A"] }
KeyEvents ==
    { KeyEvent(k.code, k.key, a, s, c, m) :
        k \in KeyStrokes, a \in BOOLEAN, s \in BOOLEAN, c \in BOOLEAN, m \in BOOLEAN }
EditedAction == "togglePacer"

\* settings.keybindings[currentEditingAction] = capturedBinding
SavedBindings(bindings, action, binding) ==
    [i \in DOMAIN bindings |->
       IF bindings[i].action = action THEN [bindings[i] EXCEPT !.binding = binding]
       ELSE bindings[i]]

ContextOf(bindings, action) ==
    LET i == CHOOSE i \in DOMAIN bindings : bindings[i].action = action
    IN bindings[i].binding.context

InitKeys ==
    /\ Loaded
    /\ follower = FollowerIdle
    /\ line = LineIdle

\* handleKeyCapture(e) in the modal of the options page and, if a binding was
\* captured, saveKeybinding() and the content script's handleStorageChange,
\* whose applySettings hands the saved bindings to the manager.
Rebind(event, pacerTab) ==
    /\ LET capture == HandleKeyCapture(event, ContextOf(DefaultBindings, EditedAction))
           saved == SavedBindings(DefaultBindings, EditedAction, capture.binding)
       IN /\ keyEvent' = [called |-> TRUE, event |-> event, capture |-> capture,
                          dispatched |-> "none"]
          /\ PageBecomes(IF capture.captured
                         THEN ReceiveSettings([Page EXCEPT !.keys.bindings = saved],
                                              settings, pacerTab, "undefined")
                         ELSE Page)
    /\ UNCHANGED <<controlMode, keyboardView, follower, line>>

\* KeybindingManager.enable() and disable()
SetEnabled(enabled) ==
    /\ keybindingManager' = [keybindingManager EXCEPT !.enabled = enabled]
    /\ UNCHANGED <<pacer, dimmer, controlMode, keyboardView, pinned, readingPin,
                   keyboardPausedByMouse, follower, line, rsvpPlayer,
                   timers, cursorHidden, settings, storage, keyEvent>>

\* A keydown event on the page, with nothing selected.
KeyPress(event) ==
    /\ KeyDown(event, <<>>)
    /\ keyEvent' = IF ~keyEvent.called THEN keyEvent
                   ELSE [keyEvent EXCEPT !.dispatched =
                           IF event = keyEvent.event THEN "same" ELSE "other"]

NextKeys ==
    \/ \E event \in KeyEvents, pacerTab \in TabStates : Rebind(event, pacerTab)
    \/ \E enabled \in BOOLEAN : SetEnabled(enabled)
    \/ \E event \in KeyEvents : KeyPress(event)

SpecKeys == InitKeys /\ [][NextKeys]_vars

\* ------------------------------------------------------------ properties
MouseMoveStep ==
    \E y \in MoveYs, th \in MoveThrottles, r \in MoveTextRects,
       b \in MoveBlocks, kf \in ListenerOrders : MouseMove(y, th, r, b, kf)
ScrollStep == \E n \in BOOLEAN : Scroll(n)
ArrowKeyStep ==
    \E lost \in BOOLEAN, o \in Outcomes, r \in KeyboardLines :
       ArrowKey(lost, o, r, BlockB)
HandlerStep == MouseMoveStep \/ ScrollStep \/ ArrowKeyStep

\* C1 as stated: a pointer-move, scroll or keyboard-navigation handler leaves
\* every current displayed coordinate of both overlays (currentY,
\* currentRect, currentLeft, currentWidth) as it was.
C1_HandlersLeaveCurrent ==
    [][HandlerStep =>
         /\ pacer'.currentY = pacer.currentY
         /\ pacer'.currentRect = pacer.currentRect
         /\ dimmer'.currentY = dimmer.currentY
         /\ dimmer'.currentLeft = dimmer.currentLeft
         /\ dimmer'.currentWidth = dimmer.currentWidth]_vars

\* C1 amended: a handler leaves currentRect, currentLeft and currentWidth as
\* they were; it changes the pacer's currentY only in a pointer move in
\* classic mode with smoothFollow off, which sets it to the new targetY, and
\* the dimmer's currentY only in keyboard navigation, which sets both
\* currentY and targetY to the center of the line moved to.
C1_HandlersSnapOnlyCurrentY ==
    [][HandlerStep =>
         /\ pacer'.currentRect = pacer.currentRect
         /\ dimmer'.currentLeft = dimmer.currentLeft
         /\ dimmer'.currentWidth = dimmer.currentWidth
         /\ pacer'.currentY # pacer.currentY =>
               /\ MouseMoveStep
               /\ ~pacer.settings.smartDetection /\ ~pacer.settings.smoothFollow
               /\ pacer'.currentY = pacer'.targetY
         /\ dimmer'.currentY # dimmer.currentY =>
               /\ ArrowKeyStep
               /\ dimmer'.currentY = dimmer'.targetY]_vars

\* C1 witness: a pointer move has set the smart pacer's target rectangle and
\* the current rectangle is still the one enable() left.
C1_TargetSetCurrentKept ==
    /\ pacer.enabled /\ pacer.settings.smartDetection
    /\ pacer.isOverText /\ pacer.targetRect = LineA
    /\ pacer.currentRect = [top |-> 0, left |-> 0, width |-> 0]

Between(x, a, b) == (a <= x /\ x <= b) \/ (b <= x /\ x <= a)

\* The smart pacer's line is where the last animateSmart frame of this
\* enabled period put it.
PacerSmartDisplayed ==
    /\ controlMode = "mouse"
    /\ pacer.enabled /\ pacer.settings.smartDetection
    /\ pacer.currentRect.width > 0
    /\ pacer.style.top.kind = "px"
    /\ pacer.style.left = PxLen(pacer.currentRect.left)
    /\ pacer.style.width = PxLen(pacer.currentRect.width)

\* The focus box is where the last frame or updatePosition put it.
DimmerBoxDisplayed ==
    /\ controlMode = "mouse"
    /\ dimmer.enabled /\ dimmer.settings.focusedBox /\ dimmer.focusBox
    /\ dimmer.boxStyle.top = PxLen(dimmer.currentY - dimmer.settings.windowHeight \div 2)
    /\ dimmer.boxStyle.left = PxLen(dimmer.currentLeft)
    /\ dimmer.boxStyle.width = PxLen(RoundDiv(dimmer.currentWidth * 105, 100))

\* C2 as stated: a frame that redraws an overlay of an enabled period puts
\* each displayed coordinate (top, left, width) in the closed interval
\* between the value displayed before and the one the latest target asks for.
C2_DisplayedBetweenPreviousAndTarget ==
    [][Frame =>
         /\ (PacerSmartDisplayed /\ pacer.isOverText /\ ~pacer.targetRect.null) =>
               /\ Between(pacer'.style.top.v, pacer.style.top.v,
                          pacer.targetRect.top + pacer.targetRect.height
                            - Px(PacerHeight) \div 2)
               /\ Between(pacer'.style.left.v, pacer.style.left.v, pacer.targetRect.left)
               /\ Between(pacer'.style.width.v, pacer.style.width.v,
                          pacer.targetRect.width)
         /\ DimmerBoxDisplayed =>
               /\ Between(dimmer'.boxStyle.top.v, dimmer.boxStyle.top.v,
                          dimmer.targetY - dimmer.settings.windowHeight \div 2)
               /\ Between(dimmer'.boxStyle.left.v, dimmer.boxStyle.left.v,
                          dimmer.targetLeft)
               /\ Between(dimmer'.boxStyle.width.v, dimmer.boxStyle.width.v,
                          RoundDiv(dimmer.targetWidth * 105, 100))]_vars

ApplySettingsStep ==
    \E ps \in PacerUpdates, ds \in DimmerUpdates, m \in ModeUpdates,
       po \in PacerOns, do \in DimmerOns :
      \E v \in ViewsOf(m) : ApplySettings(ps, ds, m, v, po, do)

\* C3 as stated: no handler writes the style of an overlay whose feature is
\* disabled.
C3_NoStyleWriteWhileDisabled == ~pacer.lateWrite /\ ~dimmer.lateWrite

\* C3 amended: while a feature is disabled its overlay style is written only
\* by a settings update (updateSettings re-applies the styles), never by a
\* frame callback, pointer-move, scroll or keyboard-navigation handler, and
\* the overlay elements stay at display none.
C3_OnlySettingsWriteWhileDisabled ==
    [][/\ (pacer'.lateWrite \/ dimmer'.lateWrite) => ApplySettingsStep
       /\ (~pacer'.enabled /\ pacer'.element) => pacer'.style.display = "none"
       /\ (~dimmer'.enabled /\ dimmer'.banner) => dimmer'.bannerStyle.display = "none"
       /\ (~dimmer'.enabled /\ dimmer'.focusBox) => dimmer'.boxStyle.display = "none"
      ]_vars

\* C3 witness: a settings update has restyled the pacer's hidden line after
\* disable().
C3_RestyledWhileDisabled ==
    /\ pacer.element /\ ~pacer.enabled /\ pacer.lateWrite
    /\ pacer.style.display = "none"

\* C4: a disabled feature has no mousemove or scroll listener registered, its
\* animationFrame is null and none of its frame callbacks is queued.
C4_DisabledIsDetached ==
    /\ ~pacer.enabled =>
          ~pacer.listeners /\ ~pacer.animationFrame /\ pacer.pending = "none"
    /\ ~dimmer.enabled =>
          ~dimmer.listeners /\ ~dimmer.animationFrame /\ ~dimmer.pending

\* C4 witness: the pacer has been disabled after its smart animation ran and
\* the settings then switched it to classic mode.
C4_DisabledAfterModeChange ==
    /\ pacer.element /\ ~pacer.enabled
    /\ ~pacer.settings.smartDetection
    /\ pacer.currentRect.width > 0

\* C5 as stated: enable() resets the current and the target position and
\* size of the feature to the neutral value its constructor (pacer) or the
\* viewport (dimmer) gives.  Stated of the steps in mouse mode, where a
\* feature comes up enabled by enable() alone.
C5_EnableResetsPosition ==
    [][(controlMode = "mouse" /\ controlMode' = "mouse") =>
       /\ (~pacer.enabled /\ pacer'.enabled) =>
             /\ pacer'.currentY = PacerNew.currentY
             /\ pacer'.targetY = PacerNew.targetY
             /\ pacer'.currentRect = PacerNew.currentRect
             /\ pacer'.targetRect = NullRect
       /\ (~dimmer.enabled /\ dimmer'.enabled) =>
             /\ dimmer'.currentY = Px(InnerHeight) \div 2
             /\ dimmer'.targetY = Px(InnerHeight) \div 2
             /\ dimmer'.currentLeft = 0 /\ dimmer'.targetLeft = 0
             /\ dimmer'.currentWidth = Px(InnerWidth)
             /\ dimmer'.targetWidth = Px(InnerWidth)]_vars

PacerHidden == pacer.style.opacity = "0" \/ pacer.style.display = "none"
DimmerHidden ==
    IF dimmer.settings.focusedBox
    THEN dimmer.boxStyle.opacity = "0" \/ dimmer.boxStyle.display = "none"
    ELSE dimmer.bannerStyle.opacity = "0" \/ dimmer.bannerStyle.display = "none"

\* C6 as stated: an overlay hidden by a scroll stays hidden through every
\* frame callback and every settings update that comes before the next
\* pointer move.  Stated of the updates that re-apply the settings the
\* feature already has, as the periodic applySettings does.
C6_HiddenUntilPointerMove ==
    [][(Frame \/ ApplySettingsStep) =>
         /\ (pacer.enabled /\ pacer.isScrolling /\ PacerHidden
             /\ pacer'.enabled /\ pacer'.isScrolling
             /\ pacer'.settings = pacer.settings) => PacerHidden'
         /\ (dimmer.enabled /\ dimmer.isScrolling /\ DimmerHidden
             /\ dimmer'.enabled /\ dimmer'.isScrolling
             /\ dimmer'.settings = dimmer.settings) => DimmerHidden']_vars

\* C7: a frame of the smart pacer that finds no target, or the pointer not
\* over text, leaves the current rectangle, currentY and every style property
\* but opacity as they were, sets opacity to 0 and queues the next frame.
C7_NoTargetFrameOnlyFades ==
    [][(Frame /\ pacer.pending = "animateSmart" /\ pacer.enabled
        /\ pacer.settings.smartDetection
        /\ (pacer.targetRect.null \/ ~pacer.isOverText)) =>
         /\ pacer'.currentRect = pacer.currentRect
         /\ pacer'.currentY = pacer.currentY
         /\ pacer'.style = [pacer.style EXCEPT !.opacity = "0"]
         /\ pacer'.enabled /\ pacer'.pending = "animateSmart"]_vars

\* C7 witness: the line had followed a target and a later frame without one
\* has faded it where it stood.
C7_FadedInPlace ==
    /\ pacer.enabled /\ pacer.settings.smartDetection
    /\ pacer.targetRect.null /\ ~pacer.isScrolling
    /\ pacer.currentRect.width > 0
    /\ pacer.style.opacity = "0"
    /\ pacer.style.width = PxLen(pacer.currentRect.width)

Distance == Abs(follower.current - follower.target)

\* C8 as stated: on every frame with the target held, the distance of the
\* current value from the target strictly decreases.  Stated of the
\* distances the counts resolve: none at all, and 1px or more (below 1px the
\* rounding of a count, not the code, decides whether a frame moves).
C8_DistanceStrictlyDecreases ==
    [][(EaseFrame /\ (Distance = 0 \/ Distance >= Resolution)) =>
          Distance' < Distance]_vars

\* C8 amended: on every frame with the target held the distance from the
\* target does not grow and the current value does not cross the target;
\* while the distance is 1px or more it strictly decreases; and MaxFrames
\* frames bring it below 1px from any start within MaxDistance px, for the
\* eases used and for the other eases sampled.
C8_DistanceShrinksBelowOnePx ==
    [][EaseFrame =>
         /\ Distance' <= Distance
         /\ (follower.current <= follower.target) =>
               (follower'.current <= follower.target)
         /\ (follower.current >= follower.target) =>
               (follower'.current >= follower.target)
         /\ (Distance >= Resolution) => (Distance' < Distance)
         /\ (follower'.frames = MaxFrames) => (Distance' < Resolution)]_vars

\* C8 witness: with the dimmer's ease, a follower that started MaxDistance px
\* from its target is within 1px of it and has not reached it.
C8_ConvergedFromFar ==
    /\ follower.ease = EaseDimmer
    /\ Abs(follower.start - follower.target) = MaxDistance * Resolution
    /\ follower.frames > 0
    /\ Distance < Resolution /\ Distance > 0

\* Ten times the distance between the vertical center of rect and that of
\* the reference.
CenterDistance10(rect) ==
    Abs((10 * rect.top + 5 * rect.height)
        - (10 * line.referenceY + 5 * line.referenceHeight))

Included(rect) == \E j \in 1 .. Len(line.lineRects) : line.lineRects[j] = rect

SetMin(S) == CHOOSE x \in S : \A y \in S : x <= y
SetMax(S) == CHOOSE x \in S : \A y \in S : x >= y

\* C10: for a block that is not preformatted, the rectangle returned spans
\* exactly the included rectangles: its left is their least left, its right
\* their greatest right, its top their least top and its bottom their
\* greatest bottom.
C10_ResultIsEnvelope ==
    (line.called /\ ~line.isPreformatted /\ Len(line.lineRects) > 0) =>
      LET S == {line.lineRects[j] : j \in 1 .. Len(line.lineRects)}
      IN /\ ~line.result.null
         /\ line.result.left = SetMin({r.left : r \in S})
         /\ line.result.left + line.result.width = SetMax({r.left + r.width : r \in S})
         /\ line.result.top = SetMin({r.top : r \in S})
         /\ line.result.top + line.result.height = SetMax({r.top + r.height : r \in S})

\* C10 witness: two included rectangles that differ in left and in top were
\* merged for a block that is not preformatted.
C10_MergedTwoRects ==
    /\ line.called /\ ~line.isPreformatted
    /\ Len(line.lineRects) = 2
    /\ line.lineRects[1].left # line.lineRects[2].left
    /\ line.lineRects[1].top # line.lineRects[2].top
    /\ ~line.result.null

Detected == line.called /\ line.op = "detect"
Merged == Detected /\ line.stage = "merged"
Scanned == line.called /\ line.op = "scan" /\ line.stage = "scanned"

\* C11 as stated: getVisualLineRect returns null when no rectangle is within
\* tolerance and when the merged rectangle is narrower than 20px, one
\* rectangle otherwise; and the pacer's target is never a line narrower than
\* 20px.
C11_NullWhenEmptyOrNarrow ==
    /\ Merged =>
         /\ Len(line.lineRects) = 0 => line.result.null
         /\ ~line.result.null => line.result.width >= Px(minLineWidth)
    /\ ~pacer.targetRect.null => pacer.targetRect.width >= Px(minLineWidth)

\* C11 amended: getVisualLineRect returns null exactly when no rectangle is
\* within tolerance, and one rectangle otherwise, of whatever width; the
\* 20px test is handleMouseMove's, which takes the rectangle as the target
\* when it is at least 20px wide and clears target and isOverText when it is
\* narrower, so the pacer's target is never narrower than 20px.
C11_NarrowLineNeverTarget ==
    /\ Merged =>
         /\ line.result.null <=> Len(line.lineRects) = 0
         /\ (~line.result.null /\ line.result.width >= Px(minLineWidth)) =>
               (pacer.targetRect = line.result /\ pacer.isOverText)
         /\ (line.result.null \/ line.result.width < Px(minLineWidth)) =>
               (pacer.targetRect.null /\ ~pacer.isOverText)
    /\ ~pacer.targetRect.null => pacer.targetRect.width >= Px(minLineWidth)

\* C11 witness: the merger returned a rectangle narrower than 20px and the
\* handler left the pacer without a target.
C11_NarrowLineDropped ==
    /\ Merged /\ ~line.result.null
    /\ line.result.width > 0 /\ line.result.width < Px(minLineWidth)
    /\ pacer.targetRect.null /\ ~pacer.isOverText

\* C12: for a preformatted block the rectangle returned has the block's left
\* edge plus its left padding as left and the block's right edge minus its
\* right padding as right, whatever the included rectangles span; its top and
\* bottom are the least top and greatest bottom of the included rectangles.
C12_PreformattedEdgesFromBlock ==
    (line.called /\ line.isPreformatted /\ Len(line.lineRects) > 0) =>
      LET S == {line.lineRects[j] : j \in 1 .. Len(line.lineRects)}
      IN /\ ~line.result.null
         /\ line.result.left = BlockBox.left + BlockBox.paddingLeft
         /\ line.result.left + line.result.width = BlockBox.right - BlockBox.paddingRight
         /\ line.result.top = SetMin({r.top : r \in S})
         /\ line.result.top + line.result.height = SetMax({r.top + r.height : r \in S})

\* C12 witness: a preformatted call merged two rectangles at different tops,
\* none of which starts at the block's content edge.
C12_PreformattedMergedTwo ==
    /\ line.called /\ line.isPreformatted
    /\ Len(line.lineRects) = 2
    /\ line.lineRects[1].top # line.lineRects[2].top
    /\ \A j \in 1 .. 2 : line.lineRects[j].left # line.result.left
    /\ ~line.result.null

\* An element the reader can operate: a link, a button, a form control, an
\* element with a click handler or role=button.  (The claim also counts a tab
\* index of 0 or more; isInteractiveElement exempts DIV and SPAN from that
\* test, and the statement below leaves the tab index aside.)
Operable(element) ==
    \/ element.tagName \in {"A", "BUTTON", "INPUT", "SELECT", "TEXTAREA"}
    \/ element.onclick
    \/ element.role = "button"
InsideOperable(inside) == \E i \in 1 .. Len(inside) : Operable(inside[i])

\* C13 as stated: a text node with an operable element among its ancestors
\* below the block, at whatever depth, has no rectangle among those merged
\* into the visual line and none among those the viewport scan collects.
C13_InteractiveTextExcluded ==
    /\ Merged =>
         \A i \in 1 .. Len(line.content) :
            InsideOperable(line.content[i].inside) =>
               ~(line.rects[i].accepted /\ Included(line.rects[i]))
    /\ Scanned =>
         \A i \in 1 .. Len(line.content) :
            InsideOperable(line.content[i].inside) =>
               \A j \in 1 .. Len(line.collected) :
                  line.collected[j] # line.content[i].rect

\* a list of rectangles in (top, left) order
TopLeftOrdered(rects) ==
    \A i, j \in 1 .. Len(rects) :
       i < j => \/ rects[i].top < rects[j].top
                \/ rects[i].top = rects[j].top /\ rects[i].left <= rects[j].left

\* The groups the k-th rectangle of the scan found, the ones of them within
\* its tolerance, a group made of it alone, and a group widened by it.
GroupsBefore(k) == IF k = 1 THEN <<>> ELSE line.trail[k - 1]
Qualifying(k) ==
    {i \in 1 .. Len(GroupsBefore(k)) : WithinTolerance(GroupsBefore(k)[i], line.sorted[k])}
GroupOf(r) ==
    [top |-> r.top, bottom |-> r.top + r.height, left |-> r.left,
     right |-> r.left + r.width]
Widened(g, r) ==
    [top |-> Min(g.top, r.top), bottom |-> Max(g.bottom, r.top + r.height),
     left |-> Min(g.left, r.left), right |-> Max(g.right, r.left + r.width)]

\* C14 as stated: the scan takes the rectangles in (top, left) order; each
\* joins the most recently created of the groups whose vertical center is
\* within max(2px, 0.6 x its height) of its own, and starts a new group only
\* when there is none.
C14_JoinsMostRecentGroup ==
    Scanned =>
      /\ TopLeftOrdered(line.sorted)
      /\ \A k \in 1 .. Len(line.sorted) :
            line.trail[k] =
               IF Qualifying(k) = {}
               THEN Append(GroupsBefore(k), GroupOf(line.sorted[k]))
               ELSE [GroupsBefore(k) EXCEPT ![SetMax(Qualifying(k))] =
                       Widened(@, line.sorted[k])]

\* C14 amended: the scan takes the rectangles in (top, left) order; each
\* joins the earliest created of the groups whose vertical center is within
\* max(2px, 0.6 x its height) of its own (the loop over groups runs from the
\* first and breaks at the first match), and starts a new group only when
\* there is none.
C14_JoinsEarliestGroup ==
    Scanned =>
      /\ TopLeftOrdered(line.sorted)
      /\ \A k \in 1 .. Len(line.sorted) :
            line.trail[k] =
               IF Qualifying(k) = {}
               THEN Append(GroupsBefore(k), GroupOf(line.sorted[k]))
               ELSE [GroupsBefore(k) EXCEPT ![SetMin(Qualifying(k))] =
                       Widened(@, line.sorted[k])]

\* C14 witness: a rectangle was within tolerance of two groups and joined
\* the one created first.
C14_JoinedFirstOfTwo ==
    /\ Scanned
    /\ \E k \in 1 .. Len(line.sorted) :
          /\ Qualifying(k) = {1, 2}
          /\ line.trail[k][1] = Widened(GroupsBefore(k)[1], line.sorted[k])
          /\ line.trail[k][2] = GroupsBefore(k)[2]

\* C15: the lines the scan stores in keyboardCursor.lineRects are in
\* top-to-bottom order: tops do not decrease, and lines of equal top are in
\* order of left.
C15_LinesTopToBottom ==
    (line.called /\ line.op = "scan") => TopLeftOrdered(line.lineRects)

\* C15 witness: the scan stored two lines from three text nodes that come in
\* another order in the document.
C15_TwoLinesReordered ==
    /\ Scanned
    /\ Len(line.lineRects) = 2 /\ Len(line.collected) = 3
    /\ ~TopLeftOrdered(line.collected)
    /\ line.lineRects[1].top < line.lineRects[2].top

\* C16 as stated: grouping is idempotent: sorting, grouping and merging the
\* lines the scan returned gives the same lines again.
C16_RegroupingChangesNothing ==
    Scanned => GroupLines(line.lineRects) = line.lineRects

BlockResolved == line.called /\ line.op = "block"
\* b is the nearest element with a block tag on the chain of node, or the
\* body when the chain has none.
NearestBlock(node, b) ==
    LET chain == StartChain(node)
        B == {i \in 1 .. Len(chain) : chain[i].tagName \in blockTags}
    IN /\ b.element # NoElement
       /\ b.steps <= Len(chain)
       /\ IF B = {} THEN b.isBody /\ b.element = Body
          ELSE ~b.isBody /\ b.index = SetMin(B) /\ b.element = chain[SetMin(B)]

\* C17: getBlockAncestor follows at most as many parent links as the node
\* has ancestors below the body, never returns null, and returns the nearest
\* element on the chain (from the node itself, or a text node's parent) whose
\* tag is a block tag, or document.body when there is none; the pacer's and
\* the dimmer's alike.
C17_NearestBlockOrBody ==
    BlockResolved =>
      /\ NearestBlock(line.node, line.block)
      /\ NearestBlock(line.node, line.dimmerBlock)

\* C17 witness: for a text node in an inline element the resolver passed the
\* inline parent and returned the paragraph above it.
C17_SkippedInlineParent ==
    /\ BlockResolved
    /\ line.node.nodeType = "text"
    /\ Len(line.node.ancestors) = 2
    /\ line.node.ancestors[1].tagName = "SPAN"
    /\ line.block.element = line.node.ancestors[2]
    /\ line.block.steps = 1

\* C18: detectTextLineAtPoint returns null when the caret range is missing or
\* not in a text node, when the text node's parent is an input, a textarea or
\* editable, and when the caret rectangle is missing or of zero height; and
\* it leaves every field of the pacer as it was.
C18_NullWithoutReadableText ==
    Detected =>
      LET parent == ParentElement(line.node)
      IN /\ (line.range = NoRange \/ line.range.startContainer.nodeType # "text") =>
               line.result.null
         /\ (parent # NoElement
             /\ (parent.tagName \in {"INPUT", "TEXTAREA"} \/ parent.isContentEditable)) =>
               line.result.null
         /\ (line.caretRect.null \/ line.caretRect.height = 0) => line.result.null
         /\ line.self = line.before

\* C18 witness: the caret was in text of an editable element, with a caret
\* rectangle of full height, and the call returned null.
C18_EditableTextSkipped ==
    /\ Detected
    /\ line.range.startContainer = line.node
    /\ ParentElement(line.node) = EditableDiv
    /\ ~line.caretRect.null /\ line.caretRect.height > 0
    /\ line.result.null /\ pacer.targetRect.null

PacerVisible == pacer.style.display # "none" /\ pacer.style.opacity # "0"
DimmerVisible ==
    IF dimmer.settings.focusedBox
    THEN dimmer.boxStyle.display # "none" /\ dimmer.boxStyle.opacity # "0"
    ELSE dimmer.bannerStyle.display # "none" /\ dimmer.bannerStyle.opacity # "0"

\* The overlay is not hidden in the way hideForScroll does not hide it under
\* the settings in force: not by display with scrollFade on, not by opacity
\* with scrollFade off.
DimmerHiddenOnlyByScroll ==
    IF dimmer.settings.focusedBox
    THEN IF dimmer.settings.scrollFade THEN dimmer.boxStyle.display # "none"
         ELSE TRUE
    ELSE IF dimmer.settings.scrollFade THEN dimmer.bannerStyle.display # "none"
         ELSE dimmer.bannerStyle.opacity # "0"

\* C19 as stated, in mouse mode: a pointer move that finds the enabled dimmer
\* hidden by a scroll (isScrolling set) shows the banner overlays at once;
\* and when it is over a readable block, the frame that follows it shows the
\* focus box.
C19_DimmerShownAfterScroll ==
    [][/\ (MouseMoveStep /\ controlMode = "mouse" /\ dimmer.enabled
           /\ dimmer.isScrolling /\ ~dimmer.settings.focusedBox
           /\ DimmerHiddenOnlyByScroll) => DimmerVisible'
       /\ (Frame /\ controlMode = "mouse" /\ dimmer.enabled /\ dimmer.pending
           /\ dimmer.settings.focusedBox /\ dimmer.isOverBlock
           /\ ~dimmer.isScrolling /\ DimmerHiddenOnlyByScroll) => DimmerVisible'
      ]_vars

\* C20 as stated, in mouse mode: a pointer move that finds the enabled pacer
\* hidden by a scroll (isScrolling set) shows the classic line at once; and
\* when it is over text, the frame that follows it shows the smart line.
C20_PacerShownAfterScroll ==
    [][/\ (MouseMoveStep /\ controlMode = "mouse" /\ pacer.enabled
           /\ pacer.isScrolling /\ ~pacer.settings.smartDetection) => PacerVisible'
       /\ (Frame /\ controlMode = "mouse" /\ pacer.enabled
           /\ pacer.pending = "animateSmart"
           /\ pacer.settings.smartDetection /\ pacer.isOverText
           /\ ~pacer.targetRect.null /\ ~pacer.isScrolling) => PacerVisible'
      ]_vars

\* C21: the words-per-minute value of the RSVP player stays within 100 to
\* 1000 after any sequence of speed-up (+50) and speed-down (-50) operations
\* that starts from a value in that range.
C21_WpmWithinRange ==
    rsvpPlayer.settings.wpm >= 100 /\ rsvpPlayer.settings.wpm <= 1000

\* C22: the height of the dimmer's reading window stays within 30 to 200 px
\* after any sequence of increase-window-height and decrease-window-height
\* shortcuts that starts from a value in that range.
C22_WindowHeightWithinRange ==
    /\ settings.windowHeight >= Px(30) /\ settings.windowHeight <= Px(200)
    /\ dimmer.settings.windowHeight >= Px(30)
    /\ dimmer.settings.windowHeight <= Px(200)

\* The words of the session shown so far, one for each index reached.
ShownInOrder ==
    /\ Len(rsvpPlayer.shown) = Min(rsvpPlayer.currentIndex + 1, Len(rsvpPlayer.words))
    /\ \A i \in 1 .. Len(rsvpPlayer.shown) : rsvpPlayer.shown[i] = rsvpPlayer.words[i]

\* C23: during an RSVP session the words (or chunks) are displayed in their
\* original order, each exactly once, none skipped and none repeated, under
\* any interleaving of pause, play, toggle and speed-adjust operations with
\* the word timer; a session that completes has shown them all.
C23_WordsShownInOrderOnce ==
    rsvpPlayer.session > 0 =>
       /\ ShownInOrder
       /\ rsvpPlayer.completions > 0 => rsvpPlayer.shown = rsvpPlayer.words

\* C23 witness: a session of two chunks or more has completed with the speed
\* changed on the way.
C23_CompletedAfterSpeedChange ==
    /\ rsvpPlayer.session > 0
    /\ rsvpPlayer.completions = 1
    /\ Len(rsvpPlayer.words) >= 2
    /\ rsvpPlayer.shown = rsvpPlayer.words
    /\ rsvpPlayer.settings.wpm # settings.wpm

RsvpControls == {"rsvpPause", "rsvpSpeedUp", "rsvpSpeedDown", "rsvpExit"}
ControlKeys == { Bare("Space", " "), Bare("ArrowRight", "ArrowRight"),
                 Bare("ArrowLeft", "ArrowLeft"), Bare("Escape", "Escape") }

\* C24: the keybinding context is 'rsvp' in exactly the states where the RSVP
\* overlay is active, so Space, the arrows and Escape run an RSVP control
\* during a session and run no handler otherwise.
C24_RsvpContextIffActive ==
    /\ keybindingManager.context = "rsvp" <=> RsvpIsActive(rsvpPlayer)
    /\ \A event \in ControlKeys :
          IF RsvpIsActive(rsvpPlayer)
          THEN KeyDownAction(keybindingManager, event) \in RsvpControls
          ELSE KeyDownAction(keybindingManager, event) = "null"

\* C24 witness: a session has been closed by Escape, and Space is left to
\* the page again.
C24_ClosedGivesKeysBack ==
    /\ rsvpPlayer.session = 1
    /\ keybindingManager.matched = "rsvpExit"
    /\ ~RsvpIsActive(rsvpPlayer)
    /\ keybindingManager.context = "default"
    /\ KeyDownAction(keybindingManager, Bare("Space", " ")) = "null"

\* C30: a session started with start() stays active until exit is requested
\* for it or that same session completes: when an auto-close timer closes an
\* active session, it is the timer that the completion of that session set.
C30_AutoCloseOnlyOwnSession ==
    [][(ExitTimer /\ RsvpIsActive(rsvpPlayer))
          => Head(timers.exit) = rsvpPlayer.session]_vars

\* C25: after the Toggle Both action in mouse mode the pacer and the dimmer
\* have the same enabled state: both disabled if at least one of them was
\* enabled before the action, both enabled if both were disabled.
C25_ToggleBothSameState ==
    [][((\E selection \in ShortcutTexts : ShortcutKeyDown(ToggleBothKey, selection))
         /\ controlMode = "mouse")
          => /\ pacer'.enabled = dimmer'.enabled
             /\ pacer'.enabled = ~(pacer.enabled \/ dimmer.enabled)]_vars

\* Toggle Both, pressed in mouse mode with the pacer alone enabled, has left
\* both overlays disabled.
C25_ToggleBothTurnedOff ==
    /\ keyEvent.called
    /\ keyEvent.event = ToggleBothKey
    /\ keyEvent.before.controlMode = "mouse"
    /\ keyEvent.before.pacer
    /\ ~keyEvent.before.dimmer
    /\ keybindingManager.matched = "toggleBoth"
    /\ controlMode = "mouse"
    /\ ~pacer.enabled
    /\ ~dimmer.enabled

\* C26: after the Disable All action, in either control mode, the pacer is
\* disabled, the dimmer is disabled, the RSVP overlay is inactive, the cursor
\* is not hidden and the reading-pin picker is inactive.
C26_DisableAllTurnsAllOff ==
    [][(\E selection \in ShortcutTexts : ShortcutKeyDown(DisableAllKey, selection))
          => /\ ~pacer'.enabled
             /\ ~dimmer'.enabled
             /\ ~RsvpIsActive(rsvpPlayer')
             /\ ~cursorHidden'
             /\ readingPin' = "none"]_vars

\* Disable All, pressed in keyboard mode with the dimmer enabled, the cursor
\* hidden, the picker waiting for a click and an RSVP session open, has
\* turned all of them off.
C26_DisableAllFromEverythingOn ==
    /\ keyEvent.called
    /\ keyEvent.event = DisableAllKey
    /\ keyEvent.before.controlMode = "keyboard"
    /\ keyEvent.before.dimmer
    /\ keyEvent.before.rsvp
    /\ keyEvent.before.cursorHidden
    /\ keyEvent.before.readingPin
    /\ keybindingManager.matched = "disableAll"
    /\ ~pacer.enabled
    /\ ~dimmer.enabled
    /\ ~RsvpIsActive(rsvpPlayer)
    /\ ~cursorHidden
    /\ readingPin = "none"

\* C27: settings updates converge: once the popup's and the content script's
\* writes have stopped and every storage-change event and SETTINGS_CHANGED
\* message has been delivered, the content script's in-memory settings equal
\* the settings object in the store.
C27_SettingsConverge ==
    (storage.popup.pc = "idle" /\ storage.events = <<>> /\ storage.messages = <<>>)
        => settings = storage.store

\* The modifiers an event holds down.
HeldModifiers(event) ==
    Held(event.altKey, "Alt") \cup Held(event.shiftKey, "Shift")
    \cup Held(event.ctrlKey, "Ctrl") \cup Held(event.metaKey, "Meta")

\* C28: a key event matches a binding only if its physical key equals the
\* binding's key, case-insensitively, and its Alt, Shift, Ctrl and Meta flags
\* are exactly the binding's modifier set; while the manager is disabled no
\* handler runs.
C28_MatchNeedsKeyAndExactModifiers ==
    \A event \in KeyEvents :
       /\ \A i \in DOMAIN keybindingManager.bindings :
             LET binding == keybindingManager.bindings[i].binding
             IN MatchesBinding(event, binding)
                  => /\ ToLowerCase(GetPhysicalKey(event)) = ToLowerCase(binding.key)
                     /\ HeldModifiers(event) = binding.modifiers
       /\ ~keybindingManager.enabled
             => HandleKeyDown(Page, event, <<>>) = [Page EXCEPT !.keys.matched = "null"]

\* Option+Shift+P has run the handler of togglePacer under its default
\* binding: the pacer is on.
C28_DefaultChordRanHandler ==
    /\ keybindingManager.bindings = DefaultBindings
    /\ keybindingManager.matched = "togglePacer"
    /\ pacer.enabled

\* C29: capture/dispatch round trip: for every key event that the options
\* page captures as a binding, the dispatcher's matchesBinding returns true
\* for that same key event against the captured binding.
C29_CapturedEventMatches ==
    (keyEvent.called /\ keyEvent.capture.captured)
        => MatchesBinding(keyEvent.event, keyEvent.capture.binding)

\* Shift+Escape was captured as the binding of togglePacer, which the
\* manager was handed, and the same event then ran the handler.
C29_CapturedEscapeDispatched ==
    /\ keyEvent.called
    /\ keyEvent.capture.captured
    /\ keyEvent.event.code = "Escape"
    /\ keyEvent.dispatched = "same"
    /\ keybindingManager.bindings # DefaultBindings
    /\ keybindingManager.matched = EditedAction
    /\ pacer.enabled

\* C31: for each started RSVP session complete() runs at most once, so the
\* statistics are updated at most once per session, even when play or
\* togglePlay is invoked after the last word was shown and before the
\* overlay closes.
C31_CompleteAtMostOnce == rsvpPlayer.completions <= 1

\* C32: at most one word-advance timer is pending at any time, and none is
\* pending while isPlaying is false.
C32_AtMostOneWordTimer ==
    /\ Cardinality(timers.word) <= 1
    /\ ~rsvpPlayer.isPlaying => timers.word = {}

\* A session that plays on after its speed was changed and words were
\* advanced: one timer is pending, the one the player holds.
C32_PlayingAfterSpeedChange ==
    /\ RsvpIsActive(rsvpPlayer)
    /\ rsvpPlayer.isPlaying
    /\ rsvpPlayer.settings.wpm \notin StartWpms
    /\ Len(rsvpPlayer.shown) >= 2
    /\ timers.word = {rsvpPlayer.intervalId}

====
